---- MODULE Spec2Model ----
(***************************************************************************)
(* Model of SshService (ssh-service.ts): the session registry, connect,    *)
(* executeCommand, uploadFile, downloadFile, disconnect and the idle       *)
(* reaper.                                                                 *)
(* The ssh2 Client, its channels and its SFTP streams are the environment: *)
(* they deliver events (ready, error, close, data, exit) in any order, and *)
(* each event runs the handler the service registered for it.  A handler   *)
(* and the promise continuation it wakes run in one turn of the event      *)
(* loop, so each is one action.                                            *)
(***************************************************************************)
EXTENDS Integers, Sequences, FiniteSets, TLC

\* ---------------------------------------------------------------- bounds
MaxClients == 2      \* connect calls (each makes one new Client)
MaxSessions == 1     \* connect calls where the sessions are only the setting
MaxTime == 2         \* the clock runs 0..MaxTime
MaxDisc == 2         \* disconnect calls
MaxErrors == 1       \* error events one Client emits
MaxExec == 2         \* executeCommand calls
MaxEvents == 4       \* events the transport delivers on channels and streams, in all
MaxCalls == 3        \* command and transfer calls made while sessions come and go
MaxUpload == 2       \* uploadFile calls
MaxDownload == 1     \* downloadFile calls
MaxChunk == 2        \* bytes in one chunk of a read stream
MaxLineRange == 1    \* extractLogsByLineRange calls
MaxFileLen == 4      \* bytes in a remote log file
MaxLine == 3         \* line numbers a caller passes
MaxTimeRange == 2    \* extractLogsByTimeRange calls
MaxLogLines == 2     \* lines in a remote log file with timestamps
MaxMinutes == 1      \* the minutesRange a caller passes
MaxScanLines == 3    \* lines in a log file that the script scans

\* sessionTimeout, the constructor's parameter, in clock units
sessionTimeout == 1

\* ---------------------------------------------------------------- values
EmptyId == 0                       \* the sessionId "" of a failed connect
SessionIds == 1..(MaxClients + 1)  \* ids a caller may pass; uuidv4 issues 1, 2, ...
CallIds == 1..(MaxSessions + 1)    \* the same where at most MaxSessions are issued
NullCode == -1                     \* the null code of an exit event

SessionNotFound == "Session not found"
NoAuthMethod == "No authentication method provided"
NoError == "none"

ConnErrors == {"ECONNREFUSED", "All configured authentication methods failed"}
ChannelErrors == {"Channel open failure", "ECONNRESET"}
Commands == {"ls"}
RemotePaths == {"/tmp/f", "/tmp/g"}
Contents == {<<104, 105>>}
\* Contents that are read back: "hi" and "\u00e9", two bytes in UTF-8
Texts == {<<104, 105>>, <<233>>}
\* The encodings a download is asked for
Encodings == {"utf8", "hex"}
ExitCodes == {NullCode, 0, 2}
\* Buffers the transport delivers: the byte of "a", and the first byte of a
\* two-byte UTF-8 sequence.
Chunks == {<<97>>, <<195>>}
\* Buffers the transport delivers on the error stream: the byte of "b"
ErrChunks == {<<98>>}

\* SshConnectionParams: a field is absent, the empty string, or a non-empty string
FieldValues == {"absent", "empty", "set"}
AllParams ==
    {[password |-> pw, privateKey |-> "absent"] : pw \in FieldValues}
        \cup {[password |-> "absent", privateKey |-> "set"]}
PasswordParams == {[password |-> "set", privateKey |-> "absent"]}

VARIABLES
    now,          \* Date.now()
    cleanupInterval, \* TRUE while the setInterval timer is armed
    sessions,     \* the registry: id -> [client, channels, lastActivity]
    clients,      \* one record per connect call: the Client it made and its promise
    nextId,       \* ids uuidv4 has issued so far
    discLog,      \* the disconnect calls made so far: [id, had, ret]
    reaped,       \* ids a reaper tick found past the timeout
    execs,        \* one record per executeCommand call
    uploads,      \* one record per uploadFile call
    downloads,    \* one record per downloadFile call
    remote,       \* the files of the remote host: path -> text
    procs,        \* the remote processes: command -> what it writes and its status
    lineRanges,   \* one record per extractLogsByLineRange call
    timeRanges    \* one record per extractLogsByTimeRange call

vars == <<now, cleanupInterval, sessions, clients, nextId, discLog, reaped,
          execs, uploads, downloads, remote, procs, lineRanges, timeRanges>>

\* ------------------------------------------------------------- promises
\* A promise settles once: resolve and reject after that are no-ops.
Pending(p) == p.promise = "pending"

\* ------------------------------------------------------------- registry
Registered == DOMAIN sessions

Remove(f, id) == [x \in (DOMAIN f) \ {id} |-> f[x]]

Put(f, id, v) == [x \in (DOMAIN f) \cup {id} |-> IF x = id THEN v ELSE f[x]]

\* client.end(): the connection is closed from this side
EndClient(cl, c) == [cl EXCEPT ![c].endCalls = @ + 1]

\* A connection is closed once end() was called on it or the remote end or
\* the transport closed it.
Closed(c) == clients[c].endCalls > 0 \/ clients[c].remoteClosed

\* getSession without the check for a missing session: the assignment to
\* lastActivity throws a TypeError instead.
getSessionUnchecked(id) ==
    IF id \in DOMAIN sessions
    THEN [ok |-> TRUE, error |-> NoError, client |-> sessions[id].client,
          sessions |-> [sessions EXCEPT ![id].lastActivity = now]]
    ELSE [ok |-> FALSE, error |-> "Cannot set properties of undefined",
          client |-> 0, sessions |-> sessions]

\* getSession that returns the session without writing to lastActivity
getSessionUntouched(id) ==
    IF id \in DOMAIN sessions
    THEN [ok |-> TRUE, error |-> NoError, client |-> sessions[id].client,
          sessions |-> sessions]
    ELSE [ok |-> FALSE, error |-> SessionNotFound, client |-> 0, sessions |-> sessions]

\* getSession(sessionId): throws when the id is not a key of the registry,
\* otherwise sets the session's lastActivity to Date.now() and returns it.
getSession(id) ==
    IF id \in DOMAIN sessions
    THEN [ok |-> TRUE, error |-> NoError, client |-> sessions[id].client,
          sessions |-> [sessions EXCEPT ![id].lastActivity = now]]
    ELSE [ok |-> FALSE, error |-> SessionNotFound, client |-> 0, sessions |-> sessions]

\* ------------------------------------------------------------- connect
AuthMethod(params) ==
    IF params.password = "set" THEN "password"
    ELSE IF params.privateKey = "set" THEN "key"
    ELSE "none"

NoResult == [returned |-> FALSE, success |-> FALSE, sessionId |-> EmptyId, error |-> NoError]

FailResult(msg) == [returned |-> TRUE, success |-> FALSE, sessionId |-> EmptyId, error |-> msg]

OkResult(id) == [returned |-> TRUE, success |-> TRUE, sessionId |-> id, error |-> NoError]

NewClient(params) ==
    [params |-> params, connectCalled |-> FALSE, promise |-> "pending",
     events |-> <<>>, endCalls |-> 0, remoteClosed |-> FALSE,
     result |-> NoResult]

\* The events the Client has emitted: "ready", or the message of an error
ReadySeen(cl) == \E i \in DOMAIN cl.events : cl.events[i] = "ready"

ErrorsSeen(cl) == Cardinality({i \in DOMAIN cl.events : cl.events[i] # "ready"})

\* connect that calls client.connect before it looks for an authentication method
connectBeforeValidate(params) ==
    /\ Len(clients) < MaxClients
    /\ LET c == Len(clients) + 1
           fresh == [NewClient(params) EXCEPT !.connectCalled = TRUE]
       IN  IF AuthMethod(params) = "none"
           THEN clients' = Append(clients,
                    [fresh EXCEPT !.promise = "rejected", !.endCalls = 1,
                                  !.result = FailResult(NoAuthMethod)])
           ELSE clients' = Append(clients, fresh)
    /\ UNCHANGED <<now, cleanupInterval, sessions, nextId, discLog, reaped,
                   execs, uploads, downloads>>
    /\ UNCHANGED <<remote, procs, lineRanges, timeRanges>>

\* connect(params) up to its await: without an authentication method it throws
\* before client.connect and the catch block ends the client and returns the
\* failure; otherwise it registers the handlers and calls client.connect.
connect(params) ==
    /\ Len(clients) < MaxClients
    /\ LET c == Len(clients) + 1
           fresh == NewClient(params)
       IN  IF AuthMethod(params) = "none"
           THEN clients' = Append(clients,
                    [fresh EXCEPT !.promise = "rejected", !.endCalls = 1,
                                  !.result = FailResult(NoAuthMethod)])
           ELSE clients' = Append(clients, [fresh EXCEPT !.connectCalled = TRUE])
    /\ UNCHANGED <<now, cleanupInterval, sessions, nextId, discLog, reaped,
                   execs, uploads, downloads>>
    /\ UNCHANGED <<remote, procs, lineRanges, timeRanges>>

\* A ready handler that stores the session itself, whether or not the promise
\* is still pending
ClientReadyUnguarded(c) ==
    /\ c \in DOMAIN clients
    /\ clients[c].connectCalled
    /\ ~ReadySeen(clients[c])
    /\ ~clients[c].remoteClosed
    /\ LET id == nextId + 1
       IN  /\ nextId' = id
           /\ sessions' = Put(sessions, id,
                  [client |-> c, channels |-> {}, lastActivity |-> now])
           /\ clients' = [clients EXCEPT ![c].events = Append(@, "ready"),
                                         ![c].promise = "resolved",
                                         ![c].result = OkResult(id)]
    /\ UNCHANGED <<now, cleanupInterval, discLog, reaped, execs, uploads, downloads>>
    /\ UNCHANGED <<remote, procs, lineRanges, timeRanges>>

\* A ready handler whose continuation stores the session under the smallest id
\* that is not in the registry
ClientReadyReusingIds(c) ==
    /\ c \in DOMAIN clients
    /\ clients[c].connectCalled
    /\ ~ReadySeen(clients[c])
    /\ ~clients[c].remoteClosed
    /\ IF Pending(clients[c])
       THEN LET id == CHOOSE i \in SessionIds :
                         i \notin DOMAIN sessions /\ \A j \in 1..(i - 1) : j \in DOMAIN sessions
            IN  /\ nextId' = nextId + 1
                /\ sessions' = Put(sessions, id,
                       [client |-> c, channels |-> {}, lastActivity |-> now])
                /\ clients' = [clients EXCEPT ![c].events = Append(@, "ready"),
                                              ![c].promise = "resolved",
                                              ![c].result = OkResult(id)]
       ELSE /\ clients' = [clients EXCEPT ![c].events = Append(@, "ready")]
            /\ UNCHANGED <<nextId, sessions>>
    /\ UNCHANGED <<now, cleanupInterval, discLog, reaped, execs, uploads, downloads>>
    /\ UNCHANGED <<remote, procs, lineRanges, timeRanges>>

\* client.on("ready"): resolve(); the continuation stores the session under a
\* fresh uuid and returns it.
ClientReady(c) ==
    /\ c \in DOMAIN clients
    /\ clients[c].connectCalled
    /\ ~ReadySeen(clients[c])
    /\ ~clients[c].remoteClosed
    /\ IF Pending(clients[c])
       THEN LET id == nextId + 1
            IN  /\ nextId' = id
                /\ sessions' = Put(sessions, id,
                       [client |-> c, channels |-> {}, lastActivity |-> now])
                /\ clients' = [clients EXCEPT ![c].events = Append(@, "ready"),
                                              ![c].promise = "resolved",
                                              ![c].result = OkResult(id)]
       ELSE /\ clients' = [clients EXCEPT ![c].events = Append(@, "ready")]
            /\ UNCHANGED <<nextId, sessions>>
    /\ UNCHANGED <<now, cleanupInterval, discLog, reaped, execs, uploads, downloads>>
    /\ UNCHANGED <<remote, procs, lineRanges, timeRanges>>

\* client.on("error"): reject(err); the catch block ends the client and returns
\* the failure with the error's message.
ClientError(c, msg) ==
    /\ c \in DOMAIN clients
    /\ clients[c].connectCalled
    /\ ErrorsSeen(clients[c]) < MaxErrors
    /\ IF Pending(clients[c])
       THEN clients' = [EndClient(clients, c) EXCEPT ![c].events = Append(@, msg),
                                                    ![c].promise = "rejected",
                                                    ![c].result = FailResult(msg)]
       ELSE clients' = [clients EXCEPT ![c].events = Append(@, msg)]
    /\ UNCHANGED <<now, cleanupInterval, sessions, nextId, discLog, reaped,
                   execs, uploads, downloads>>
    /\ UNCHANGED <<remote, procs, lineRanges, timeRanges>>

\* The remote end or the network closes an established connection.  The service
\* registers no handler for the client's close or end events.
RemoteClose(c) ==
    /\ c \in DOMAIN clients
    /\ ReadySeen(clients[c])
    /\ ~Closed(c)
    /\ clients' = [clients EXCEPT ![c].remoteClosed = TRUE]
    /\ UNCHANGED <<now, cleanupInterval, sessions, nextId, discLog, reaped,
                   execs, uploads, downloads>>
    /\ UNCHANGED <<remote, procs, lineRanges, timeRanges>>

\* ------------------------------------------------------------- disconnect
\* disconnect that answers true whether or not the session existed
disconnectAlwaysTrue(ss, cl, id) ==
    IF id \in DOMAIN ss
    THEN [sessions |-> Remove(ss, id), clients |-> EndClient(cl, ss[id].client), ret |-> TRUE]
    ELSE [sessions |-> ss, clients |-> cl, ret |-> TRUE]

\* disconnect that ends the connection and leaves the entry in the registry
disconnectKeepsEntry(ss, cl, id) ==
    IF id \in DOMAIN ss
    THEN [sessions |-> ss, clients |-> EndClient(cl, ss[id].client), ret |-> TRUE]
    ELSE [sessions |-> ss, clients |-> cl, ret |-> FALSE]

\* disconnect(id) on a registry and the clients: the registry and the clients
\* afterwards, and the value returned.  session.channels is never added to, so
\* the loop over it closes nothing.
disconnect(ss, cl, id) ==
    IF id \in DOMAIN ss
    THEN [sessions |-> Remove(ss, id), clients |-> EndClient(cl, ss[id].client), ret |-> TRUE]
    ELSE [sessions |-> ss, clients |-> cl, ret |-> FALSE]

\* The public call disconnect(sessionId)
Disconnect(id) ==
    /\ Len(discLog) < MaxDisc
    /\ LET r == disconnect(sessions, clients, id)
       IN  /\ sessions' = r.sessions
           /\ clients' = r.clients
           /\ discLog' = Append(discLog, [id |-> id, had |-> id \in Registered, ret |-> r.ret])
    /\ UNCHANGED <<now, cleanupInterval, nextId, reaped, execs, uploads, downloads>>
    /\ UNCHANGED <<remote, procs, lineRanges, timeRanges>>

\* ------------------------------------------------------------- reaper
\* A test that also takes a session idle for exactly the timeout
ExpiredInclusive(ss, id) == now - ss[id].lastActivity >= sessionTimeout

Expired(ss, id) == now - ss[id].lastActivity > sessionTimeout

RECURSIVE DisconnectAll(_, _, _)
\* this.disconnect(id) for every id of ids, in the order the loop meets them
DisconnectAll(ss, cl, ids) ==
    IF ids = {} THEN [sessions |-> ss, clients |-> cl]
    ELSE LET id == CHOOSE x \in ids : \A y \in ids : x <= y
             r == disconnect(ss, cl, id)
         IN  DisconnectAll(r.sessions, r.clients, ids \ {id})

\* cleanupInactiveSessions with the operands of the subtraction swapped
cleanupInactiveSessionsSwapped ==
    DisconnectAll(sessions, clients,
        {id \in DOMAIN sessions : sessions[id].lastActivity - now > sessionTimeout})

\* cleanupInactiveSessions: disconnect every session past the timeout
cleanupInactiveSessions ==
    DisconnectAll(sessions, clients, {id \in DOMAIN sessions : Expired(sessions, id)})

\* One firing of the setInterval timer
ReaperTick ==
    /\ cleanupInterval
    /\ reaped' = reaped \cup
           {id \in DOMAIN sessions : now - sessions[id].lastActivity > sessionTimeout}
    /\ sessions' = cleanupInactiveSessions.sessions
    /\ clients' = cleanupInactiveSessions.clients
    /\ UNCHANGED <<now, cleanupInterval, nextId, discLog, execs, uploads, downloads>>
    /\ UNCHANGED <<remote, procs, lineRanges, timeRanges>>

\* cleanup(): the timer is cleared and every session is disconnected
Cleanup ==
    /\ cleanupInterval' = FALSE
    /\ sessions' = DisconnectAll(sessions, clients, DOMAIN sessions).sessions
    /\ clients' = DisconnectAll(sessions, clients, DOMAIN sessions).clients
    /\ UNCHANGED <<now, nextId, discLog, reaped, execs, uploads, downloads>>
    /\ UNCHANGED <<remote, procs, lineRanges, timeRanges>>

\* Time passes
Tick ==
    /\ now < MaxTime
    /\ now' = now + 1
    /\ UNCHANGED <<cleanupInterval, sessions, clients, nextId, discLog, reaped,
                   execs, uploads, downloads>>
    /\ UNCHANGED <<remote, procs, lineRanges, timeRanges>>

\* ------------------------------------------------------------- strings
\* The length of the longest prefix of b below 128: ASCII bytes, or ASCII
\* characters
AsciiPrefix(b) ==
    IF \A i \in DOMAIN b : b[i] < 128 THEN Len(b)
    ELSE (CHOOSE i \in DOMAIN b : b[i] >= 128 /\ \A j \in 1..(i - 1) : b[j] < 128) - 1

RECURSIVE BufToString(_)
\* Buffer.toString(): UTF-8 decoding of one buffer into code points.  ASCII
\* bytes decode to themselves.  A lead byte without its continuation byte, or
\* a stray continuation byte, decodes to U+FFFD.
BufToString(b) ==
    IF b = <<>> THEN <<>>
    ELSE IF b[1] < 128
    THEN SubSeq(b, 1, AsciiPrefix(b)) \o BufToString(SubSeq(b, AsciiPrefix(b) + 1, Len(b)))
    ELSE IF b[1] \in 194..223 /\ Len(b) >= 2 /\ b[2] \in 128..191
         THEN <<(b[1] - 192) * 64 + (b[2] - 128)>> \o BufToString(Tail(Tail(b)))
    ELSE <<65533>> \o BufToString(Tail(b))

\* Buffer.toString("hex"): two lower-case hexadecimal digits per byte
HexDigit(n) == IF n < 10 THEN 48 + n ELSE 87 + n

RECURSIVE BufToHex(_)
BufToHex(b) ==
    IF b = <<>> THEN <<>>
    ELSE <<HexDigit(b[1] \div 16), HexDigit(b[1] % 16)>> \o BufToHex(Tail(b))

\* Buffer.toString(encoding)
BufToStringIn(b, encoding) == IF encoding = "hex" THEN BufToHex(b) ELSE BufToString(b)

RECURSIVE StringToBuf(_)
\* The bytes of a string: its UTF-8 encoding (code points below U+0800)
StringToBuf(str) ==
    IF str = <<>> THEN <<>>
    ELSE IF str[1] < 128
    THEN SubSeq(str, 1, AsciiPrefix(str))
             \o StringToBuf(SubSeq(str, AsciiPrefix(str) + 1, Len(str)))
    ELSE <<192 + (str[1] \div 64), 128 + (str[1] % 64)>> \o StringToBuf(Tail(str))

RECURSIVE TextOfData(_)
\* The bytes of the data events of a log of events, in order
TextOfData(events) ==
    IF events = <<>> THEN <<>>
    ELSE (IF Head(events).kind = "data" THEN Head(events).data ELSE <<>>)
             \o TextOfData(Tail(events))

\* What the transport delivered on a channel or stream, in order
Delivered(call, kind) == \E i \in DOMAIN call.events : call.events[i].kind = kind

Event(kind, data, code, msg) == [kind |-> kind, data |-> data, code |-> code, msg |-> msg]

RECURSIVE SumEvents(_)
SumEvents(calls) ==
    IF calls = <<>> THEN 0 ELSE Len(Head(calls).events) + SumEvents(Tail(calls))

\* The commands and the uploads made by the log extraction calls, by index
OwnExecs ==
    {lineRanges[r].exec : r \in DOMAIN lineRanges}
        \cup UNION {{timeRanges[t].chmod, timeRanges[t].run, timeRanges[t].rm} :
                        t \in DOMAIN timeRanges}

OwnUploads == {timeRanges[t].upload : t \in DOMAIN timeRanges}

RECURSIVE SumEventsOf(_, _)
SumEventsOf(calls, own) ==
    IF own = {} THEN 0
    ELSE LET i == CHOOSE j \in own : TRUE
         IN  Len(calls[i].events) + SumEventsOf(calls, own \ {i})

\* Events the transport has delivered so far on the channels and write streams
\* of the calls made from outside.  A read stream delivers the bytes of a file
\* and ends, and the remote host runs a command of a log extraction to its
\* end: neither draws on this count.
EventsDelivered ==
    SumEvents(execs) + SumEvents(uploads)
        - SumEventsOf(execs, OwnExecs \cap DOMAIN execs)
        - SumEventsOf(uploads, OwnUploads \cap DOMAIN uploads)

CallsMade == Len(execs) + Len(uploads) + Len(downloads)

\* ------------------------------------------------------------- executeCommand
NoCommandResult == [command |-> "", stdout |-> <<>>, stderr |-> <<>>, exitCode |-> 0]

\* phase: "none" (no channel was asked for), "requested" (client.exec called),
\* "failed" (the callback got an error), "open" (the callback got the channel
\* and registered its handlers)
NewExec(id, command) ==
    [sid |-> id, command |-> command, client |-> 0, phase |-> "none",
     stdout |-> <<>>, stderr |-> <<>>, exitCode |-> 0,
     promise |-> "pending", result |-> NoCommandResult, error |-> NoError,
     events |-> <<>>]

\* executeCommand that asks for a channel only when no earlier command on the
\* session is still pending, and rejects otherwise
executeCommandSerialized(id, command) ==
    /\ Len(execs) < MaxExec
    /\ LET s == getSession(id)
           busy == \E k \in DOMAIN execs : execs[k].sid = id /\ Pending(execs[k])
       IN  /\ sessions' = s.sessions
           /\ IF s.ok /\ ~busy
              THEN execs' = Append(execs, [NewExec(id, command) EXCEPT
                                !.client = s.client, !.phase = "requested"])
              ELSE execs' = Append(execs, [NewExec(id, command) EXCEPT
                                !.promise = "rejected",
                                !.error = IF s.ok THEN "Session busy" ELSE s.error])
    /\ UNCHANGED <<now, cleanupInterval, clients, nextId, discLog, reaped,
                   uploads, downloads>>
    /\ UNCHANGED <<remote, procs, lineRanges, timeRanges>>

\* executeCommand(sessionId, command) up to client.exec
executeCommand(id, command) ==
    /\ Len(execs) < MaxExec
    /\ LET s == getSession(id)
       IN  /\ sessions' = s.sessions
           /\ IF s.ok
              THEN execs' = Append(execs, [NewExec(id, command) EXCEPT
                                !.client = s.client, !.phase = "requested"])
              ELSE execs' = Append(execs, [NewExec(id, command) EXCEPT
                                !.promise = "rejected", !.error = s.error])
    /\ UNCHANGED <<now, cleanupInterval, clients, nextId, discLog, reaped,
                   uploads, downloads>>
    /\ UNCHANGED <<remote, procs, lineRanges, timeRanges>>

\* The exec callback with an error: reject(err)
ExecCallbackError(k, msg) ==
    /\ k \in DOMAIN execs
    /\ execs[k].phase = "requested"
    /\ execs' = [execs EXCEPT ![k].phase = "failed",
                              ![k].promise = "rejected",
                              ![k].error = msg,
                              ![k].events = Append(@, Event("callback-error", <<>>, 0, msg))]
    /\ UNCHANGED <<now, cleanupInterval, sessions, clients, nextId, discLog, reaped,
                   uploads, downloads>>
    /\ UNCHANGED <<remote, procs, lineRanges, timeRanges>>

\* The exec callback with a channel: stdout, stderr and exitCode start empty
\* and the five handlers are registered.  A channel opens only on a connection
\* that is still open.
ExecCallbackChannel(k) ==
    /\ k \in DOMAIN execs
    /\ execs[k].phase = "requested"
    /\ ~Closed(execs[k].client)
    /\ execs' = [execs EXCEPT ![k].phase = "open"]
    /\ UNCHANGED <<now, cleanupInterval, sessions, clients, nextId, discLog, reaped,
                   uploads, downloads>>
    /\ UNCHANGED <<remote, procs, lineRanges, timeRanges>>

\* The transport may deliver an event on channel k
ChannelLive(k) ==
    /\ k \in DOMAIN execs
    /\ execs[k].phase = "open"
    /\ EventsDelivered < MaxEvents

\* A data handler that appends to one buffer shared by every open channel
ChannelDataShared(k, data) ==
    /\ ChannelLive(k)
    /\ execs' = [j \in DOMAIN execs |->
                    IF j = k
                    THEN [execs[j] EXCEPT !.stdout = @ \o BufToString(data),
                                          !.events = Append(@, Event("data", data, 0, NoError))]
                    ELSE IF execs[j].phase = "open"
                    THEN [execs[j] EXCEPT !.stdout = @ \o BufToString(data)]
                    ELSE execs[j]]
    /\ UNCHANGED <<now, cleanupInterval, sessions, clients, nextId, discLog, reaped,
                   uploads, downloads>>
    /\ UNCHANGED <<remote, procs, lineRanges, timeRanges>>

\* A data handler that also counts the output as activity of the session
ChannelDataTouching(k, data) ==
    /\ ChannelLive(k)
    /\ execs' = [execs EXCEPT ![k].stdout = @ \o BufToString(data),
                              ![k].events = Append(@, Event("data", data, 0, NoError))]
    /\ sessions' = IF execs[k].sid \in DOMAIN sessions
                   THEN [sessions EXCEPT ![execs[k].sid].lastActivity = now]
                   ELSE sessions
    /\ UNCHANGED <<now, cleanupInterval, clients, nextId, discLog, reaped,
                   uploads, downloads>>
    /\ UNCHANGED <<remote, procs, lineRanges, timeRanges>>

\* channel.on("data"): stdout += data.toString()
ChannelData(k, data) ==
    /\ ChannelLive(k)
    /\ execs' = [execs EXCEPT ![k].stdout = @ \o BufToString(data),
                              ![k].events = Append(@, Event("data", data, 0, NoError))]
    /\ UNCHANGED <<now, cleanupInterval, sessions, clients, nextId, discLog, reaped,
                   uploads, downloads>>
    /\ UNCHANGED <<remote, procs, lineRanges, timeRanges>>

\* channel.stderr.on("data"): stderr += data.toString()
ChannelStderrData(k, data) ==
    /\ ChannelLive(k)
    /\ execs' = [execs EXCEPT ![k].stderr = @ \o BufToString(data),
                              ![k].events = Append(@, Event("stderr", data, 0, NoError))]
    /\ UNCHANGED <<now, cleanupInterval, sessions, clients, nextId, discLog, reaped,
                   uploads, downloads>>
    /\ UNCHANGED <<remote, procs, lineRanges, timeRanges>>

\* An exit handler that stores the code as it comes, null included
ChannelExitRaw(k, code) ==
    /\ ChannelLive(k)
    /\ ~Delivered(execs[k], "exit")
    /\ execs' = [execs EXCEPT ![k].exitCode = code,
                              ![k].events = Append(@, Event("exit", <<>>, code, NoError))]
    /\ UNCHANGED <<now, cleanupInterval, sessions, clients, nextId, discLog, reaped,
                   uploads, downloads>>
    /\ UNCHANGED <<remote, procs, lineRanges, timeRanges>>

\* channel.on("exit"): exitCode = code || 0
ChannelExit(k, code) ==
    /\ ChannelLive(k)
    /\ ~Delivered(execs[k], "exit")
    /\ execs' = [execs EXCEPT ![k].exitCode = IF code = NullCode \/ code = 0 THEN 0 ELSE code,
                              ![k].events = Append(@, Event("exit", <<>>, code, NoError))]
    /\ UNCHANGED <<now, cleanupInterval, sessions, clients, nextId, discLog, reaped,
                   uploads, downloads>>
    /\ UNCHANGED <<remote, procs, lineRanges, timeRanges>>

\* A close handler whose result replaces whatever the call had settled with
ChannelCloseAlways(k) ==
    /\ ChannelLive(k)
    /\ ~Delivered(execs[k], "close")
    /\ LET e == execs[k]
       IN  execs' = [execs EXCEPT ![k] =
                        [e EXCEPT !.promise = "resolved",
                                  !.result = [command |-> e.command, stdout |-> e.stdout,
                                              stderr |-> e.stderr, exitCode |-> e.exitCode],
                                  !.events = Append(@, Event("close", <<>>, 0, NoError))]]
    /\ UNCHANGED <<now, cleanupInterval, sessions, clients, nextId, discLog, reaped,
                   uploads, downloads>>
    /\ UNCHANGED <<remote, procs, lineRanges, timeRanges>>

\* channel.on("close"): resolve({command, stdout, stderr, exitCode})
ChannelClose(k) ==
    /\ ChannelLive(k)
    /\ ~Delivered(execs[k], "close")
    /\ LET e == execs[k]
           settled == IF Pending(e)
                      THEN [e EXCEPT !.promise = "resolved",
                                     !.result = [command |-> e.command, stdout |-> e.stdout,
                                                 stderr |-> e.stderr, exitCode |-> e.exitCode]]
                      ELSE e
       IN  execs' = [execs EXCEPT ![k] =
                        [settled EXCEPT !.events = Append(@, Event("close", <<>>, 0, NoError))]]
    /\ UNCHANGED <<now, cleanupInterval, sessions, clients, nextId, discLog, reaped,
                   uploads, downloads>>
    /\ UNCHANGED <<remote, procs, lineRanges, timeRanges>>

\* An error event that is recorded and leaves the promise as it was
ChannelErrorIgnored(k, msg) ==
    /\ ChannelLive(k)
    /\ ~Delivered(execs[k], "error")
    /\ execs' = [execs EXCEPT ![k].events = Append(@, Event("error", <<>>, 0, msg))]
    /\ UNCHANGED <<now, cleanupInterval, sessions, clients, nextId, discLog, reaped,
                   uploads, downloads>>
    /\ UNCHANGED <<remote, procs, lineRanges, timeRanges>>

\* channel.on("error"): reject(err)
ChannelError(k, msg) ==
    /\ ChannelLive(k)
    /\ ~Delivered(execs[k], "error")
    /\ LET e == execs[k]
           settled == IF Pending(e)
                      THEN [e EXCEPT !.promise = "rejected", !.error = msg]
                      ELSE e
       IN  execs' = [execs EXCEPT ![k] =
                        [settled EXCEPT !.events = Append(@, Event("error", <<>>, 0, msg))]]
    /\ UNCHANGED <<now, cleanupInterval, sessions, clients, nextId, discLog, reaped,
                   uploads, downloads>>
    /\ UNCHANGED <<remote, procs, lineRanges, timeRanges>>

\* ------------------------------------------------------------- uploadFile
NoUploadResult == [success |-> FALSE, remotePath |-> ""]

NewUpload(id, content, remotePath) ==
    [sid |-> id, content |-> content, remotePath |-> remotePath, client |-> 0,
     phase |-> "none", promise |-> "pending", result |-> NoUploadResult,
     error |-> NoError, events |-> <<>>]

\* uploadFile(sessionId, content, remotePath) up to client.sftp
uploadFile(id, content, remotePath) ==
    /\ Len(uploads) < MaxUpload
    /\ LET s == getSession(id)
       IN  /\ sessions' = s.sessions
           /\ IF s.ok
              THEN uploads' = Append(uploads, [NewUpload(id, content, remotePath) EXCEPT
                                  !.client = s.client, !.phase = "requested"])
              ELSE uploads' = Append(uploads, [NewUpload(id, content, remotePath) EXCEPT
                                  !.promise = "rejected", !.error = s.error])
    /\ UNCHANGED <<now, cleanupInterval, clients, nextId, discLog, reaped,
                   execs, downloads>>
    /\ UNCHANGED <<remote, procs, lineRanges, timeRanges>>

\* The sftp callback with an error: reject(err)
UploadSftpError(u, msg) ==
    /\ u \in DOMAIN uploads
    /\ uploads[u].phase = "requested"
    /\ uploads' = [uploads EXCEPT ![u].phase = "failed",
                                  ![u].promise = "rejected",
                                  ![u].error = msg,
                                  ![u].events = Append(@, Event("callback-error", <<>>, 0, msg))]
    /\ UNCHANGED <<now, cleanupInterval, sessions, clients, nextId, discLog, reaped,
                   execs, downloads>>
    /\ UNCHANGED <<remote, procs, lineRanges, timeRanges>>

\* The sftp callback with the subsystem: createWriteStream(remotePath), the
\* error and close handlers, stream.end(content); the remote file gets the
\* content
UploadSftpReady(u) ==
    /\ u \in DOMAIN uploads
    /\ uploads[u].phase = "requested"
    /\ ~Closed(uploads[u].client)
    /\ uploads' = [uploads EXCEPT ![u].phase = "open"]
    /\ remote' = Put(remote, uploads[u].remotePath, uploads[u].content)
    /\ UNCHANGED <<now, cleanupInterval, sessions, clients, nextId, discLog, reaped,
                   execs, downloads>>
    /\ UNCHANGED <<procs, lineRanges, timeRanges>>

StreamLive(u) ==
    /\ u \in DOMAIN uploads
    /\ uploads[u].phase = "open"
    /\ EventsDelivered < MaxEvents

\* stream.on("error"): reject(err)
WriteStreamError(u, msg) ==
    /\ StreamLive(u)
    /\ ~Delivered(uploads[u], "error")
    /\ LET e == uploads[u]
           settled == IF Pending(e)
                      THEN [e EXCEPT !.promise = "rejected", !.error = msg]
                      ELSE e
       IN  uploads' = [uploads EXCEPT ![u] =
                          [settled EXCEPT !.events = Append(@, Event("error", <<>>, 0, msg))]]
    /\ UNCHANGED <<now, cleanupInterval, sessions, clients, nextId, discLog, reaped,
                   execs, downloads>>
    /\ UNCHANGED <<remote, procs, lineRanges, timeRanges>>

\* A close handler that reports success whatever the call had settled with
WriteStreamCloseAlways(u) ==
    /\ StreamLive(u)
    /\ ~Delivered(uploads[u], "close")
    /\ LET e == uploads[u]
       IN  uploads' = [uploads EXCEPT ![u] =
                          [e EXCEPT !.promise = "resolved",
                                    !.result = [success |-> TRUE, remotePath |-> e.remotePath],
                                    !.events = Append(@, Event("close", <<>>, 0, NoError))]]
    /\ UNCHANGED <<now, cleanupInterval, sessions, clients, nextId, discLog, reaped,
                   execs, downloads>>
    /\ UNCHANGED <<remote, procs, lineRanges, timeRanges>>

\* stream.on("close"): resolve({success: true, remotePath})
WriteStreamClose(u) ==
    /\ StreamLive(u)
    /\ ~Delivered(uploads[u], "close")
    /\ LET e == uploads[u]
           settled == IF Pending(e)
                      THEN [e EXCEPT !.promise = "resolved",
                                     !.result = [success |-> TRUE, remotePath |-> e.remotePath]]
                      ELSE e
       IN  uploads' = [uploads EXCEPT ![u] =
                          [settled EXCEPT !.events = Append(@, Event("close", <<>>, 0, NoError))]]
    /\ UNCHANGED <<now, cleanupInterval, sessions, clients, nextId, discLog, reaped,
                   execs, downloads>>
    /\ UNCHANGED <<remote, procs, lineRanges, timeRanges>>

\* ------------------------------------------------------------- downloadFile
NoDownloadResult == [success |-> FALSE, content |-> <<>>]

\* file, rest: what the read stream found at remotePath when it was opened and
\* the bytes it has not delivered yet.  settledUploads: the uploadFile calls
\* that had resolved when this call was made.
NewDownload(id, remotePath, encoding) ==
    [sid |-> id, remotePath |-> remotePath, encoding |-> encoding, client |-> 0,
     phase |-> "none", content |-> <<>>, promise |-> "pending",
     result |-> NoDownloadResult, error |-> NoError, events |-> <<>>,
     found |-> FALSE, rest |-> <<>>,
     settledUploads |-> {u \in DOMAIN uploads : uploads[u].promise = "resolved"}]

\* downloadFile(sessionId, remotePath, encoding) up to client.sftp
downloadFile(id, remotePath, encoding) ==
    /\ Len(downloads) < MaxDownload
    /\ LET s == getSession(id)
       IN  /\ sessions' = s.sessions
           /\ IF s.ok
              THEN downloads' = Append(downloads, [NewDownload(id, remotePath, encoding) EXCEPT
                                    !.client = s.client, !.phase = "requested"])
              ELSE downloads' = Append(downloads, [NewDownload(id, remotePath, encoding) EXCEPT
                                    !.promise = "rejected", !.error = s.error])
    /\ UNCHANGED <<now, cleanupInterval, clients, nextId, discLog, reaped,
                   execs, uploads>>
    /\ UNCHANGED <<remote, procs, lineRanges, timeRanges>>

\* The sftp callback with an error: reject(err)
DownloadSftpError(d, msg) ==
    /\ d \in DOMAIN downloads
    /\ downloads[d].phase = "requested"
    /\ downloads' = [downloads EXCEPT ![d].phase = "failed",
                                      ![d].promise = "rejected",
                                      ![d].error = msg,
                                      ![d].events = Append(@, Event("callback-error", <<>>, 0, msg))]
    /\ UNCHANGED <<now, cleanupInterval, sessions, clients, nextId, discLog, reaped,
                   execs, uploads>>
    /\ UNCHANGED <<remote, procs, lineRanges, timeRanges>>

\* The sftp callback with the subsystem: createReadStream(remotePath) and the
\* data, error and end handlers.  The stream reads the bytes of the file as it
\* is now.
DownloadSftpReady(d) ==
    /\ d \in DOMAIN downloads
    /\ downloads[d].phase = "requested"
    /\ ~Closed(downloads[d].client)
    /\ LET f == downloads[d].remotePath
       IN  downloads' = [downloads EXCEPT
               ![d].phase = "open",
               ![d].found = f \in DOMAIN remote,
               ![d].rest = IF f \in DOMAIN remote THEN StringToBuf(remote[f]) ELSE <<>>]
    /\ UNCHANGED <<now, cleanupInterval, sessions, clients, nextId, discLog, reaped,
                   execs, uploads>>
    /\ UNCHANGED <<remote, procs, lineRanges, timeRanges>>

ReadStreamLive(d) ==
    /\ d \in DOMAIN downloads
    /\ downloads[d].phase = "open"

\* stream.on("data"): content += data.toString(encoding), for the next n bytes
\* of the file
ReadStreamData(d, n) ==
    /\ ReadStreamLive(d)
    /\ downloads[d].found
    /\ ~Delivered(downloads[d], "end")
    /\ n \in 1..Len(downloads[d].rest)
    /\ LET e == downloads[d]
           data == SubSeq(e.rest, 1, n)
       IN  downloads' = [downloads EXCEPT ![d] =
               [e EXCEPT !.content = @ \o BufToStringIn(data, e.encoding),
                         !.rest = SubSeq(e.rest, n + 1, Len(e.rest)),
                         !.events = Append(@, Event("data", data, 0, NoError))]]
    /\ UNCHANGED <<now, cleanupInterval, sessions, clients, nextId, discLog, reaped,
                   execs, uploads>>
    /\ UNCHANGED <<remote, procs, lineRanges, timeRanges>>

\* stream.on("error"): reject(err)
ReadStreamError(d, msg) ==
    /\ ReadStreamLive(d)
    /\ ~Delivered(downloads[d], "error")
    /\ ~Delivered(downloads[d], "end")
    /\ LET e == downloads[d]
           settled == IF Pending(e)
                      THEN [e EXCEPT !.promise = "rejected", !.error = msg]
                      ELSE e
       IN  downloads' = [downloads EXCEPT ![d] =
               [settled EXCEPT !.events = Append(@, Event("error", <<>>, 0, msg))]]
    /\ UNCHANGED <<now, cleanupInterval, sessions, clients, nextId, discLog, reaped,
                   execs, uploads>>
    /\ UNCHANGED <<remote, procs, lineRanges, timeRanges>>

\* stream.on("end"), once the whole file was delivered:
\* resolve({success: true, content})
ReadStreamEnd(d) ==
    /\ ReadStreamLive(d)
    /\ downloads[d].found
    /\ downloads[d].rest = <<>>
    /\ ~Delivered(downloads[d], "end")
    /\ LET e == downloads[d]
           settled == IF Pending(e)
                      THEN [e EXCEPT !.promise = "resolved",
                                     !.result = [success |-> TRUE, content |-> e.content]]
                      ELSE e
       IN  downloads' = [downloads EXCEPT ![d] =
               [settled EXCEPT !.events = Append(@, Event("end", <<>>, 0, NoError))]]
    /\ UNCHANGED <<now, cleanupInterval, sessions, clients, nextId, discLog, reaped,
                   execs, uploads>>
    /\ UNCHANGED <<remote, procs, lineRanges, timeRanges>>

\* ------------------------------------------------------------- the remote host
Newline == 10

LogPath == "/var/log/app.log"

\* The bytes of a log file: "a" and the newline
LogBytes == {97, Newline}
LogFiles == UNION {[1..n -> LogBytes] : n \in 0..MaxFileLen}

\* An argument or a field that is absent, and one that holds a number
Undefined == <<>>
Some(n) == <<n>>

\* The endLine arguments a caller passes: none, or a number
EndLines == {Undefined} \cup {Some(n) : n \in 0..MaxLine}

\* The truthiness of an optional number: undefined and 0 are falsy
Truthy(v) == v # Undefined /\ v[1] # 0

Min(a, b) == IF a < b THEN a ELSE b
Max(a, b) == IF a < b THEN b ELSE a

\* The end of the first line of a non-empty file: its newline, or the end of
\* the file
LineEnd(b) ==
    IF \E i \in DOMAIN b : b[i] = Newline
    THEN CHOOSE i \in DOMAIN b : b[i] = Newline /\ \A j \in 1..(i - 1) : b[j] # Newline
    ELSE Len(b)

RECURSIVE FileLines(_)
\* The lines of a file, each with its newline; the last one may have none
FileLines(b) ==
    IF b = <<>> THEN <<>>
    ELSE <<SubSeq(b, 1, LineEnd(b))>> \o FileLines(SubSeq(b, LineEnd(b) + 1, Len(b)))

RECURSIVE Join(_)
Join(lines) == IF lines = <<>> THEN <<>> ELSE Head(lines) \o Join(Tail(lines))

\* head -n n: the first n lines
HeadN(b, n) == Join(SubSeq(FileLines(b), 1, Min(n, Len(FileLines(b)))))

\* tail -n n: the last n lines
TailN(b, n) ==
    LET lines == FileLines(b)
    IN  Join(SubSeq(lines, Max(1, Len(lines) - n + 1), Len(lines)))

\* tail -n +n: the lines from the n-th on
TailFrom(b, n) ==
    LET lines == FileLines(b)
    IN  Join(SubSeq(lines, Max(1, n), Len(lines)))

\* What a command writes when it cannot open its file
CannotOpen == <<69>>

\* `head -n ${endLine} ${filePath} | tail -n ${lineCount}`
HeadTailCommand(filePath, endLine, lineCount) ==
    [prog |-> "head|tail", path |-> filePath, n |-> endLine, m |-> lineCount]

\* `tail -n +${startLine} ${filePath}`
TailFromCommand(filePath, startLine) ==
    [prog |-> "tail+", path |-> filePath, n |-> startLine, m |-> 0]

\* ------------------------------------------------------------- the extraction script
Quote == 34
Backslash == 92
Digits == 48..57

\* The lines of a log file with timestamps: "1", "2", "3", and "2" followed by
\* a double quote
LogLines == {<<49>>, <<50>>, <<51>>, <<50, Quote>>}

FaultLogLines == {<<50>>, <<50, Quote>>}

\* The lines of a log file that is scanned: "1", "2", "3", the line "a" without
\* a timestamp, and "12", whose two matches date does not understand
ScanLogLines == {<<49>>, <<50>>, <<51>>, <<97>>, <<49, 50>>}

RECURSIVE Terminated(_)
\* The text of lines, each followed by a newline
Terminated(lines) ==
    IF lines = <<>> THEN <<>> ELSE Head(lines) \o <<Newline>> \o Terminated(Tail(lines))

\* Log files: some lines, of which the last may lack its newline
TimeLogFiles ==
    LET texts == {Terminated(lines) : lines \in UNION {[1..n -> LogLines] : n \in 0..MaxLogLines}}
    IN  texts \cup {SubSeq(t, 1, Len(t) - 1) : t \in texts \ {<<>>}}

\* Log files that are scanned: some lines in any order, each with its newline
ScanLogFiles ==
    {Terminated(lines) : lines \in UNION {[1..n -> ScanLogLines] : n \in 0..MaxScanLines}}

\* The targetTime arguments: "2", and "x", which date does not understand
TargetTimes == {<<50>>, <<120>>}

\* The two characters backslash and n that the script puts after each line
EscapedNewline == <<Backslash, 110>>

\* The timePattern argument: a digit
TimePattern == "[0-9]"

\* echo "$line" | grep -o -E "$time_pattern": every match of the pattern in
\* the line, in order
Matches(line, pattern) == SelectSeq(line, LAMBDA c : c \in Digits)

RECURSIVE OnePerLine(_)
\* What the command substitution keeps of the output of grep -o: the matches
\* with a newline between them
OnePerLine(matches) ==
    IF Len(matches) <= 1 THEN matches
    ELSE <<Head(matches), Newline>> \o OnePerLine(Tail(matches))

\* date -d "$str" +%s: the strings date understands here are the single
\* digits, the minutes of one hour; on any other string date fails
DateSeconds(str) ==
    IF Len(str) = 1 /\ str[1] \in Digits THEN Some((str[1] - 48) * 60) ELSE Undefined

RECURSIVE ReadLines(_)
\* The lines `while IFS= read -r line` gives to the loop body: read fails on
\* a last line that has no newline, and the loop ends without it
ReadLines(lines) ==
    IF lines = <<>> THEN <<>>
    ELSE IF Head(lines)[Len(Head(lines))] = Newline
    THEN <<SubSeq(Head(lines), 1, Len(Head(lines)) - 1)>> \o ReadLines(Tail(lines))
    ELSE ReadLines(Tail(lines))

\* The variables of the script before the loop
ScanStart ==
    [matching_lines |-> <<>>, start_time |-> <<>>, end_time |-> <<>>,
     line_count |-> 0, in_range |-> FALSE]

\* matching_lines="$matching_lines$line\\n"; ((line_count++))
AppendLine(st, line) ==
    [st EXCEPT !.matching_lines = @ \o line \o EscapedNewline,
               !.line_count = @ + 1]

RECURSIVE ScanToTheEnd(_, _, _, _, _)
\* A loop that has no break: it goes through every line of the file
ScanToTheEnd(lines, pattern, range_start, range_end, st) ==
    IF lines = <<>> THEN st
    ELSE LET line == Head(lines)
             timestamp_str == OnePerLine(Matches(line, pattern))
             line_timestamp == DateSeconds(timestamp_str)
         IN  IF Matches(line, pattern) # <<>>
             THEN IF line_timestamp = Undefined
                  THEN ScanToTheEnd(Tail(lines), pattern, range_start, range_end, st)
                  ELSE IF line_timestamp[1] >= range_start /\ line_timestamp[1] <= range_end
                  THEN ScanToTheEnd(Tail(lines), pattern, range_start, range_end,
                            [AppendLine(st, line) EXCEPT
                                !.start_time = IF st.matching_lines = <<>>
                                               THEN timestamp_str ELSE @,
                                !.end_time = timestamp_str,
                                !.in_range = TRUE])
                  ELSE ScanToTheEnd(Tail(lines), pattern, range_start, range_end, st)
             ELSE IF st.in_range
             THEN ScanToTheEnd(Tail(lines), pattern, range_start, range_end,
                               AppendLine(st, line))
             ELSE ScanToTheEnd(Tail(lines), pattern, range_start, range_end, st)

RECURSIVE Scan(_, _, _, _, _)
\* The loop of the script over the lines it reads, from the variables st
Scan(lines, pattern, range_start, range_end, st) ==
    IF lines = <<>> THEN st
    ELSE LET line == Head(lines)
             timestamp_str == OnePerLine(Matches(line, pattern))
             line_timestamp == DateSeconds(timestamp_str)
         IN  IF Matches(line, pattern) # <<>>
             THEN IF line_timestamp = Undefined
                  THEN Scan(Tail(lines), pattern, range_start, range_end, st)
                  ELSE IF line_timestamp[1] >= range_start /\ line_timestamp[1] <= range_end
                  THEN Scan(Tail(lines), pattern, range_start, range_end,
                            [AppendLine(st, line) EXCEPT
                                !.start_time = IF st.matching_lines = <<>>
                                               THEN timestamp_str ELSE @,
                                !.end_time = timestamp_str,
                                !.in_range = TRUE])
                  ELSE IF st.in_range /\ line_timestamp[1] > range_end
                  THEN st
                  ELSE Scan(Tail(lines), pattern, range_start, range_end, st)
             ELSE IF st.in_range
             THEN Scan(Tail(lines), pattern, range_start, range_end, AppendLine(st, line))
             ELSE Scan(Tail(lines), pattern, range_start, range_end, st)

RECURSIVE Decimal(_)
\* $line_count in decimal
Decimal(n) == IF n < 10 THEN <<48 + n>> ELSE Decimal(n \div 10) \o <<48 + (n % 10)>>

\* The text of the here-document, around the values of the four variables
PayloadOpen ==
    <<123, 10, 32, 32, 34, 108, 105, 110, 101, 67, 111, 117, 110, 116, 34, 58,
    32>>
PayloadStartTime ==
    <<44, 10, 32, 32, 34, 115, 116, 97, 114, 116, 84, 105, 109, 101, 34, 58,
    32, 34>>
PayloadEndTime ==
    <<34, 44, 10, 32, 32, 34, 101, 110, 100, 84, 105, 109, 101, 34, 58, 32,
    34>>
PayloadContent ==
    <<34, 44, 10, 32, 32, 34, 99, 111, 110, 116, 101, 110, 116, 34, 58, 32,
    34>>
PayloadClose ==
    <<34, 10, 125, 10>>

\* cat << EOF ... EOF
Payload(st) ==
    PayloadOpen \o Decimal(st.line_count)
        \o PayloadStartTime \o st.start_time
        \o PayloadEndTime \o st.end_time
        \o PayloadContent \o st.matching_lines
        \o PayloadClose

\* echo "Error: Invalid target time format." >&2
InvalidTargetTime ==
    <<69, 114, 114, 111, 114, 58, 32, 73, 110, 118, 97, 108, 105, 100, 32,
    116, 97, 114, 103, 101, 116, 32, 116, 105, 109, 101, 32, 102, 111, 114,
    109, 97, 116, 46, 10>>

\* The script: the template with its four parameters
ExtractScript(filePath, targetTime, timePattern, minutesRange) ==
    [prog |-> "extract", log_file |-> filePath, target_time |-> targetTime,
     time_pattern |-> timePattern, minutes_range |-> minutesRange]

\* What running the script writes and its exit status.  A log file that cannot
\* be opened gives a diagnostic and an empty loop.
RunScript(script, files) ==
    LET target_timestamp == DateSeconds(script.target_time)
    IN  IF target_timestamp = Undefined
        THEN [stdout |-> <<>>, stderr |-> InvalidTargetTime, code |-> 1]
        ELSE LET range_start == target_timestamp[1] - script.minutes_range * 60
                 range_end == target_timestamp[1] + script.minutes_range * 60
                 found == script.log_file \in DOMAIN files
                 lines == IF found THEN ReadLines(FileLines(files[script.log_file]))
                          ELSE <<>>
                 st == Scan(lines, script.time_pattern, range_start, range_end, ScanStart)
             IN  [stdout |-> StringToBuf(Payload(st)),
                  stderr |-> IF found THEN <<>> ELSE CannotOpen,
                  code |-> 0]

\* ------------------------------------------------------------- JSON.parse
JsonWhitespace == {32, 9, 10, 13}

\* The characters that may follow a backslash in a string (the \u form is
\* left out: no text here holds it), and what each stands for
JsonEscapes == {Quote, Backslash, 47, 98, 102, 110, 114, 116}

Unescape(c) ==
    CASE c = 98 -> 8 [] c = 102 -> 12 [] c = 110 -> Newline [] c = 114 -> 13
      [] c = 116 -> 9 [] OTHER -> c

JsonFail == [ok |-> FALSE, value |-> <<>>, next |-> 0]

RECURSIVE SkipWhitespace(_, _)
SkipWhitespace(s, i) ==
    IF i <= Len(s) /\ s[i] \in JsonWhitespace THEN SkipWhitespace(s, i + 1) ELSE i

RECURSIVE JsonStringFrom(_, _, _)
\* The rest of a string, from position i inside it: up to the closing quote
JsonStringFrom(s, i, acc) ==
    IF i > Len(s) THEN JsonFail
    ELSE IF s[i] = Quote THEN [ok |-> TRUE, value |-> acc, next |-> i + 1]
    ELSE IF s[i] = Backslash
    THEN IF i + 1 <= Len(s) /\ s[i + 1] \in JsonEscapes
         THEN JsonStringFrom(s, i + 2, Append(acc, Unescape(s[i + 1])))
         ELSE JsonFail
    ELSE IF s[i] < 32 THEN JsonFail
    ELSE JsonStringFrom(s, i + 1, Append(acc, s[i]))

RECURSIVE JsonDigitsFrom(_, _, _)
JsonDigitsFrom(s, i, n) ==
    IF i <= Len(s) /\ s[i] \in Digits
    THEN JsonDigitsFrom(s, i + 1, n * 10 + (s[i] - 48))
    ELSE [ok |-> TRUE, value |-> n, next |-> i]

\* A value at position i: a string or a non-negative integer (the values the
\* script writes); a number does not start with a superfluous 0
JsonValue(s, i) ==
    IF i > Len(s) THEN JsonFail
    ELSE IF s[i] = Quote
    THEN LET r == JsonStringFrom(s, i + 1, <<>>)
         IN  [ok |-> r.ok, next |-> r.next,
              value |-> [type |-> "string", str |-> r.value, num |-> 0]]
    ELSE IF s[i] = 48
    THEN [ok |-> TRUE, next |-> i + 1, value |-> [type |-> "number", str |-> <<>>, num |-> 0]]
    ELSE IF s[i] \in Digits
    THEN LET r == JsonDigitsFrom(s, i, 0)
         IN  [ok |-> TRUE, next |-> r.next,
              value |-> [type |-> "number", str |-> <<>>, num |-> r.value]]
    ELSE [ok |-> FALSE, next |-> 0, value |-> [type |-> "none", str |-> <<>>, num |-> 0]]

RECURSIVE JsonMembers(_, _, _)
\* The members of an object from position i, where a key is due
JsonMembers(s, i, obj) ==
    IF i > Len(s) \/ s[i] # Quote THEN [ok |-> FALSE, value |-> obj, next |-> 0]
    ELSE LET key == JsonStringFrom(s, i + 1, <<>>)
             colon == SkipWhitespace(s, key.next)
         IN  IF ~key.ok \/ colon > Len(s) \/ s[colon] # 58
             THEN [ok |-> FALSE, value |-> obj, next |-> 0]
             ELSE LET v == JsonValue(s, SkipWhitespace(s, colon + 1))
                      after == SkipWhitespace(s, v.next)
                  IN  IF ~v.ok \/ after > Len(s)
                      THEN [ok |-> FALSE, value |-> obj, next |-> 0]
                      ELSE IF s[after] = 125
                      THEN [ok |-> TRUE, value |-> Put(obj, key.value, v.value),
                            next |-> after + 1]
                      ELSE IF s[after] = 44
                      THEN JsonMembers(s, SkipWhitespace(s, after + 1),
                                       Put(obj, key.value, v.value))
                      ELSE [ok |-> FALSE, value |-> obj, next |-> 0]

\* JSON.parse(text) of an object: its members, or a SyntaxError
JsonParse(s) ==
    LET open == SkipWhitespace(s, 1)
    IN  IF open > Len(s) \/ s[open] # 123 THEN [ok |-> FALSE, value |-> <<>>]
        ELSE LET first == SkipWhitespace(s, open + 1)
                 r == IF first <= Len(s) /\ s[first] = 125
                      THEN [ok |-> TRUE, value |-> <<>>, next |-> first + 1]
                      ELSE JsonMembers(s, first, <<>>)
             IN  IF r.ok /\ SkipWhitespace(s, r.next) = Len(s) + 1
                 THEN [ok |-> TRUE, value |-> r.value]
                 ELSE [ok |-> FALSE, value |-> <<>>]

JsonSyntaxError == "SyntaxError: JSON.parse"

\* The keys of the payload
KeyLineCount ==
    <<108, 105, 110, 101, 67, 111, 117, 110, 116>>
KeyStartTime ==
    <<115, 116, 97, 114, 116, 84, 105, 109, 101>>
KeyEndTime ==
    <<101, 110, 100, 84, 105, 109, 101>>
KeyContent ==
    <<99, 111, 110, 116, 101, 110, 116>>

RECURSIVE RestoreNewlines(_)
\* str.replace(/\\n/g, "\n"): every backslash followed by n becomes a newline
RestoreNewlines(str) ==
    IF str = <<>> THEN <<>>
    ELSE IF Len(str) >= 2 /\ SubSeq(str, 1, 2) = EscapedNewline
    THEN <<Newline>> \o RestoreNewlines(SubSeq(str, 3, Len(str)))
    ELSE <<Head(str)>> \o RestoreNewlines(Tail(str))

\* ------------------------------------------------------------- the remote shell
\* `chmod +x ${scriptPath}`, the script path as a command, `rm ${scriptPath}`
ChmodCommand(scriptPath) == [prog |-> "chmod", path |-> scriptPath, n |-> 0, m |-> 0]
ScriptCommand(scriptPath) == [prog |-> "run", path |-> scriptPath, n |-> 0, m |-> 0]
RmCommand(scriptPath) == [prog |-> "rm", path |-> scriptPath, n |-> 0, m |-> 0]

\* A filePath argument that holds a command substitution:
\* /var/log/app.log$(rm /var/log/app.log)
SubstitutedPath == "/var/log/app.log$(rm /var/log/app.log)"

\* What the shell makes of a word that stands bare in a command, as in
\* `tail -n +${startLine} ${filePath}`, or between double quotes, as in
\* log_file="${filePath}": it runs a $(command) of the word and puts the output
\* of the command in its place
Expand(word, files) ==
    IF word = SubstitutedPath
    THEN [word |-> LogPath, files |-> Remove(files, LogPath)]
    ELSE [word |-> word, files |-> files]

\* A word that is taken as it is written
Literal(word, files) == [word |-> word, files |-> files]

\* What a shell does with a command on the files it has, when it expands the
\* words of the parameters or takes them as they are written: the bytes on
\* both streams, the exit status and the files afterwards.  The status of a pipeline is the
\* status of its last command.
ShellWith(cmd, files, expands) ==
    LET Word(w, fs) == IF expands THEN Expand(w, fs) ELSE Literal(w, fs)
        path == Word(cmd.path, files)
    IN  IF path.word \notin DOMAIN path.files
        THEN [stdout |-> <<>>, stderr |-> CannotOpen, files |-> path.files,
              code |-> CASE cmd.prog = "head|tail" -> 0
                         [] cmd.prog = "run" -> 127
                         [] OTHER -> 1]
        ELSE CASE cmd.prog = "head|tail" ->
                    [stdout |-> StringToBuf(TailN(HeadN(path.files[path.word], cmd.n), cmd.m)),
                     stderr |-> <<>>, code |-> 0, files |-> path.files]
               [] cmd.prog = "tail+" ->
                    [stdout |-> StringToBuf(TailFrom(path.files[path.word], cmd.n)),
                     stderr |-> <<>>, code |-> 0, files |-> path.files]
               [] cmd.prog = "chmod" ->
                    [stdout |-> <<>>, stderr |-> <<>>, code |-> 0, files |-> path.files]
               [] cmd.prog = "run" ->
                    LET script == path.files[path.word]
                        log_file == Word(script.log_file, path.files)
                        run == RunScript([script EXCEPT !.log_file = log_file.word],
                                         log_file.files)
                    IN  [stdout |-> run.stdout, stderr |-> run.stderr, code |-> run.code,
                         files |-> log_file.files]
               [] cmd.prog = "rm" ->
                    [stdout |-> <<>>, stderr |-> <<>>, code |-> 0,
                     files |-> Remove(path.files, path.word)]

\* What the remote shell does with a command on the files it has
Shell(cmd, files) == ShellWith(cmd, files, TRUE)

\* The remote host runs the command of channel k
ShellStart(k) ==
    /\ k \in DOMAIN execs
    /\ execs[k].phase = "open"
    /\ k \notin DOMAIN procs
    /\ LET p == Shell(execs[k].command, remote)
       IN  /\ procs' = Put(procs, k, [stdout |-> p.stdout, stderr |-> p.stderr,
                                      code |-> p.code])
           /\ remote' = p.files
    /\ UNCHANGED <<now, cleanupInterval, sessions, clients, nextId, discLog, reaped,
                   execs, uploads, downloads, lineRanges, timeRanges>>

\* The remote process of command k writes its output
ShellOutput(k) ==
    /\ k \in DOMAIN procs
    /\ ~Delivered(execs[k], "data")
    /\ ~Delivered(execs[k], "exit")
    /\ procs[k].stdout # <<>>
    /\ ChannelData(k, procs[k].stdout)

\* The remote process of command k writes its diagnostics
ShellDiagnostics(k) ==
    /\ k \in DOMAIN procs
    /\ ~Delivered(execs[k], "stderr")
    /\ ~Delivered(execs[k], "exit")
    /\ procs[k].stderr # <<>>
    /\ ChannelStderrData(k, procs[k].stderr)

\* The remote process of command k has written everything and exits
ShellExit(k) ==
    /\ k \in DOMAIN procs
    /\ Delivered(execs[k], "data") \/ procs[k].stdout = <<>>
    /\ Delivered(execs[k], "stderr") \/ procs[k].stderr = <<>>
    /\ ChannelExit(k, procs[k].code)

\* The channel of command k closes after the exit of its process
ShellClose(k) ==
    /\ k \in DOMAIN procs
    /\ Delivered(execs[k], "exit")
    /\ ChannelClose(k)

\* ------------------------------------------------------------- extractLogsByLineRange
\* A string made of a fixed text followed by a piece of output
Str(text, output) == [text |-> text, output |-> output]

FailedToExtract == "Failed to extract logs: "

NoExtractResult ==
    [success |-> FALSE, content |-> Str("", <<>>), lineCount |-> 0,
     startLine |-> Undefined, endLine |-> Undefined,
     startTime |-> Undefined, endTime |-> Undefined]

\* The result of the catch block: { success: false, content: error.message,
\* lineCount: 0 }
CaughtResult(message) == [NoExtractResult EXCEPT !.content = message]

\* The number of lines of a text, a last line without newline included
SplitLengthOfLines(str) == Len(FileLines(str))

\* str.split("\n").length
SplitLength(str) == Cardinality({i \in DOMAIN str : str[i] = Newline}) + 1

\* const lineCount = endLine ? endLine - startLine + 1 : undefined
lineCountOf(startLine, endLine) ==
    IF Truthy(endLine) THEN Some(endLine[1] - startLine + 1) ELSE Undefined

\* const command = lineCount ? `head ... | tail ...` : `tail -n +...`
LineRangeCommand(filePath, startLine, endLine) ==
    IF Truthy(lineCountOf(startLine, endLine))
    THEN HeadTailCommand(filePath, endLine[1], lineCountOf(startLine, endLine)[1])
    ELSE TailFromCommand(filePath, startLine)

\* executeCommand(sessionId, command) up to client.exec, called from inside
\* the service: the sessions and the call's record
executeCommandFrom(ss, id, command) ==
    IF id \in DOMAIN ss
    THEN [ok |-> TRUE,
          sessions |-> [ss EXCEPT ![id].lastActivity = now],
          call |-> [NewExec(id, command) EXCEPT !.client = ss[id].client,
                                                !.phase = "requested"]]
    ELSE [ok |-> FALSE, sessions |-> ss,
          call |-> [NewExec(id, command) EXCEPT !.promise = "rejected",
                                                !.error = SessionNotFound]]

NewLineRange(id, filePath, startLine, endLine) ==
    [sid |-> id, filePath |-> filePath, startLine |-> startLine, endLine |-> endLine,
     exec |-> 0, promise |-> "pending", result |-> NoExtractResult, error |-> NoError]

\* extractLogsByLineRange(sessionId, filePath, startLine, endLine) up to the
\* await: getSession outside the try block, then the command is built and
\* executeCommand is called
extractLogsByLineRange(id, filePath, startLine, endLine) ==
    /\ Len(lineRanges) < MaxLineRange
    /\ LET s == getSession(id)
           call == NewLineRange(id, filePath, startLine, endLine)
       IN  IF s.ok
           THEN LET x == executeCommandFrom(s.sessions, id,
                             LineRangeCommand(filePath, startLine, endLine))
                IN  /\ sessions' = x.sessions
                    /\ execs' = Append(execs, x.call)
                    /\ lineRanges' = Append(lineRanges, [call EXCEPT !.exec = Len(execs) + 1])
           ELSE /\ lineRanges' = Append(lineRanges, [call EXCEPT !.promise = "rejected",
                                                                 !.error = s.error])
                /\ UNCHANGED <<sessions, execs>>
    /\ UNCHANGED <<now, cleanupInterval, clients, nextId, discLog, reaped,
                   uploads, downloads, remote, procs, timeRanges>>

\* extractLogsByLineRange after the await: the command's promise has settled
LineRangeReturn(r) ==
    /\ r \in DOMAIN lineRanges
    /\ Pending(lineRanges[r])
    /\ ~Pending(execs[lineRanges[r].exec])
    /\ LET e == execs[lineRanges[r].exec]
           c == lineRanges[r]
           result ==
               IF e.promise = "rejected" THEN CaughtResult(Str(e.error, <<>>))
               ELSE IF e.result.exitCode # 0
               THEN CaughtResult(Str(FailedToExtract, e.result.stderr))
               ELSE [NoExtractResult EXCEPT
                        !.success = TRUE,
                        !.content = Str("", e.result.stdout),
                        !.lineCount = SplitLength(e.result.stdout),
                        !.startLine = Some(c.startLine),
                        !.endLine = c.endLine]
       IN  lineRanges' = [lineRanges EXCEPT ![r].promise = "resolved", ![r].result = result]
    /\ UNCHANGED <<now, cleanupInterval, sessions, clients, nextId, discLog, reaped,
                   execs, uploads, downloads, remote, procs, timeRanges>>

\* ------------------------------------------------------------- extractLogsByTimeRange
\* `/tmp/extract_logs_${Date.now()}.sh`
ScriptPaths ==
    <<"/tmp/extract_logs_0.sh", "/tmp/extract_logs_1.sh", "/tmp/extract_logs_2.sh",
      "/tmp/extract_logs_3.sh", "/tmp/extract_logs_4.sh">>

ScriptPath(t) == ScriptPaths[t + 1]

TypeErrorMessage == "Cannot read properties of undefined (reading 'replace')"

\* step: the call being awaited, "upload", "chmod", "run", "rm", or "done".
\* upload, chmod, run, rm: the calls made, by index (0: not made).
NewTimeRange(id, filePath, targetTime, timePattern, minutesRange) ==
    [sid |-> id, filePath |-> filePath, targetTime |-> targetTime,
     timePattern |-> timePattern, minutesRange |-> minutesRange,
     scriptPath |-> "", step |-> "done", upload |-> 0, chmod |-> 0, run |-> 0, rm |-> 0,
     promise |-> "pending", result |-> NoExtractResult, error |-> NoError]

\* A catch block that throws the error again
Rethrown(call, message) ==
    [call EXCEPT !.step = "done", !.promise = "rejected", !.error = message]

\* The catch block: the call returns { success: false, content: message,
\* lineCount: 0 }
Caught(call, message) ==
    [call EXCEPT !.step = "done", !.promise = "resolved",
                 !.result = CaughtResult(Str(message, <<>>))]

\* extractLogsByTimeRange with getSession inside the try block: a missing
\* session is caught and returned as a failed result
extractLogsByTimeRangeCaught(id, filePath, targetTime, timePattern, minutesRange) ==
    /\ Len(timeRanges) < MaxTimeRange
    /\ LET s == getSession(id)
           call == NewTimeRange(id, filePath, targetTime, timePattern, minutesRange)
           extractScript == ExtractScript(filePath, targetTime, timePattern, minutesRange)
           scriptPath == ScriptPath(now)
       IN  IF s.ok
           THEN /\ sessions' = s.sessions
                /\ uploads' = Append(uploads,
                       [NewUpload(id, extractScript, scriptPath) EXCEPT
                           !.client = s.client, !.phase = "requested"])
                /\ timeRanges' = Append(timeRanges,
                       [call EXCEPT !.scriptPath = scriptPath, !.step = "upload",
                                    !.upload = Len(uploads) + 1])
           ELSE /\ timeRanges' = Append(timeRanges, Caught(call, s.error))
                /\ UNCHANGED <<sessions, uploads>>
    /\ UNCHANGED <<now, cleanupInterval, clients, nextId, discLog, reaped,
                   execs, downloads, remote, procs, lineRanges>>

\* extractLogsByTimeRange(sessionId, filePath, targetTime, timePattern,
\* minutesRange) up to the first await: getSession outside the try block, then
\* the script is built and uploadFile is called
extractLogsByTimeRange(id, filePath, targetTime, timePattern, minutesRange) ==
    /\ Len(timeRanges) < MaxTimeRange
    /\ LET s == getSession(id)
           call == NewTimeRange(id, filePath, targetTime, timePattern, minutesRange)
           extractScript == ExtractScript(filePath, targetTime, timePattern, minutesRange)
           scriptPath == ScriptPath(now)
       IN  IF s.ok
           THEN /\ sessions' = s.sessions
                /\ uploads' = Append(uploads,
                       [NewUpload(id, extractScript, scriptPath) EXCEPT
                           !.client = s.client, !.phase = "requested"])
                /\ timeRanges' = Append(timeRanges,
                       [call EXCEPT !.scriptPath = scriptPath, !.step = "upload",
                                    !.upload = Len(uploads) + 1])
           ELSE /\ timeRanges' = Append(timeRanges, [call EXCEPT !.promise = "rejected",
                                                                 !.error = s.error])
                /\ UNCHANGED <<sessions, uploads>>
    /\ UNCHANGED <<now, cleanupInterval, clients, nextId, discLog, reaped,
                   execs, downloads, remote, procs, lineRanges>>

\* A step of call t that ends by calling executeCommand: when the session is
\* gone the call throws and the catch block returns, otherwise the command is
\* asked for and the call awaits it
NextCommand(t, step, command) ==
    LET x == executeCommandFrom(sessions, timeRanges[t].sid, command)
    IN  IF x.ok
        THEN /\ sessions' = x.sessions
             /\ execs' = Append(execs, x.call)
             /\ timeRanges' = [timeRanges EXCEPT
                    ![t] = [[@ EXCEPT !.step = step] EXCEPT ![step] = Len(execs) + 1]]
        ELSE /\ timeRanges' = [timeRanges EXCEPT ![t] = Caught(@, x.call.error)]
             /\ UNCHANGED <<sessions, execs>>

\* uploadFile(...) without await: the chmod command is asked for while the
\* upload is still on its way
TimeRangeUploadedUnawaited(t) ==
    /\ t \in DOMAIN timeRanges
    /\ timeRanges[t].step = "upload"
    /\ IF uploads[timeRanges[t].upload].promise = "rejected"
       THEN /\ timeRanges' = [timeRanges EXCEPT
                   ![t] = Caught(@, uploads[timeRanges[t].upload].error)]
            /\ UNCHANGED <<sessions, execs>>
       ELSE NextCommand(t, "chmod", ChmodCommand(timeRanges[t].scriptPath))
    /\ UNCHANGED <<now, cleanupInterval, clients, nextId, discLog, reaped,
                   uploads, downloads, remote, procs, lineRanges>>

\* After `await this.uploadFile(...)`: executeCommand(`chmod +x ${scriptPath}`)
TimeRangeUploaded(t) ==
    /\ t \in DOMAIN timeRanges
    /\ timeRanges[t].step = "upload"
    /\ ~Pending(uploads[timeRanges[t].upload])
    /\ IF uploads[timeRanges[t].upload].promise = "rejected"
       THEN /\ timeRanges' = [timeRanges EXCEPT
                   ![t] = Caught(@, uploads[timeRanges[t].upload].error)]
            /\ UNCHANGED <<sessions, execs>>
       ELSE NextCommand(t, "chmod", ChmodCommand(timeRanges[t].scriptPath))
    /\ UNCHANGED <<now, cleanupInterval, clients, nextId, discLog, reaped,
                   uploads, downloads, remote, procs, lineRanges>>

\* After the await of the chmod command: executeCommand(scriptPath)
TimeRangeMadeExecutable(t) ==
    /\ t \in DOMAIN timeRanges
    /\ timeRanges[t].step = "chmod"
    /\ ~Pending(execs[timeRanges[t].chmod])
    /\ IF execs[timeRanges[t].chmod].promise = "rejected"
       THEN /\ timeRanges' = [timeRanges EXCEPT
                   ![t] = Caught(@, execs[timeRanges[t].chmod].error)]
            /\ UNCHANGED <<sessions, execs>>
       ELSE NextCommand(t, "run", ScriptCommand(timeRanges[t].scriptPath))
    /\ UNCHANGED <<now, cleanupInterval, clients, nextId, discLog, reaped,
                   uploads, downloads, remote, procs, lineRanges>>

\* After the await of the script: executeCommand(`rm ${scriptPath}`)
TimeRangeExecuted(t) ==
    /\ t \in DOMAIN timeRanges
    /\ timeRanges[t].step = "run"
    /\ ~Pending(execs[timeRanges[t].run])
    /\ IF execs[timeRanges[t].run].promise = "rejected"
       THEN /\ timeRanges' = [timeRanges EXCEPT
                   ![t] = Caught(@, execs[timeRanges[t].run].error)]
            /\ UNCHANGED <<sessions, execs>>
       ELSE NextCommand(t, "rm", RmCommand(timeRanges[t].scriptPath))
    /\ UNCHANGED <<now, cleanupInterval, clients, nextId, discLog, reaped,
                   uploads, downloads, remote, procs, lineRanges>>

\* The result of a call whose script has run: the exit code is checked, the
\* output is parsed and the newlines of the content are restored
TimeRangeResult(result) ==
    LET parsed == JsonParse(result.stdout)
        extractionResult == parsed.value
    IN  IF result.exitCode # 0
        THEN CaughtResult(Str(FailedToExtract, result.stderr))
        ELSE IF ~parsed.ok
        THEN CaughtResult(Str(JsonSyntaxError, <<>>))
        ELSE IF KeyContent \notin DOMAIN extractionResult
                  \/ extractionResult[KeyContent].type # "string"
        THEN CaughtResult(Str(TypeErrorMessage, <<>>))
        ELSE [NoExtractResult EXCEPT
                 !.success = TRUE,
                 !.content = Str("", RestoreNewlines(extractionResult[KeyContent].str)),
                 !.lineCount = IF KeyLineCount \in DOMAIN extractionResult
                               THEN extractionResult[KeyLineCount].num ELSE 0,
                 !.startTime = IF KeyStartTime \in DOMAIN extractionResult
                               THEN Some(extractionResult[KeyStartTime].str)
                               ELSE Undefined,
                 !.endTime = IF KeyEndTime \in DOMAIN extractionResult
                             THEN Some(extractionResult[KeyEndTime].str)
                             ELSE Undefined]

\* After the await of the rm command: the rest of the try block
TimeRangeReturn(t) ==
    /\ t \in DOMAIN timeRanges
    /\ timeRanges[t].step = "rm"
    /\ ~Pending(execs[timeRanges[t].rm])
    /\ IF execs[timeRanges[t].rm].promise = "rejected"
       THEN timeRanges' = [timeRanges EXCEPT
                ![t] = Caught(@, execs[timeRanges[t].rm].error)]
       ELSE timeRanges' = [timeRanges EXCEPT
                ![t].step = "done", ![t].promise = "resolved",
                ![t].result = TimeRangeResult(execs[timeRanges[t].run].result)]
    /\ UNCHANGED <<now, cleanupInterval, sessions, clients, nextId, discLog, reaped,
                   execs, uploads, downloads, remote, procs, lineRanges>>

\* ------------------------------------------------------------- specification
\* The service after construction: no session and no call
InitService ==
    /\ now = 0
    /\ cleanupInterval = TRUE
    /\ sessions = <<>>
    /\ clients = <<>>
    /\ nextId = 0
    /\ discLog = <<>>
    /\ reaped = {}
    /\ execs = <<>>
    /\ uploads = <<>>
    /\ downloads = <<>>
    /\ procs = <<>>
    /\ lineRanges = <<>>
    /\ timeRanges = <<>>

Init ==
    /\ InitService
    /\ remote = <<>>

\* The remote host has no log file, or one with any lines
InitTimeLogs ==
    /\ InitService
    /\ remote \in {<<>>} \cup {[f \in {LogPath} |-> b] : b \in TimeLogFiles}

\* The remote host has a log file of one line, with or without a double quote
InitFaultLogs ==
    /\ InitService
    /\ remote \in {[f \in {LogPath} |-> Terminated(<<line>>)] : line \in FaultLogLines}

\* The remote host has a log file that is scanned
InitScanLogs ==
    /\ InitService
    /\ remote \in {[f \in {LogPath} |-> b] : b \in ScanLogFiles}

\* The remote host has no log file, or one with any content
InitLogs ==
    /\ InitService
    /\ remote \in {<<>>} \cup {[f \in {LogPath} |-> b] : b \in LogFiles}

\* Sessions are opened and disconnected while commands and transfers are
\* called on live, disconnected and never issued ids; the transport answers no
\* channel request.
Next ==
    \/ \E p \in PasswordParams : Len(clients) < MaxSessions /\ connect(p)
    \/ \E c \in 1..MaxClients : ClientReady(c)
    \/ \E id \in CallIds : Disconnect(id)
    \/ \E id \in CallIds, cmd \in Commands : CallsMade < MaxCalls /\ executeCommand(id, cmd)
    \/ \E id \in CallIds, t \in Contents, f \in {"/tmp/f"} :
           CallsMade < MaxCalls /\ uploadFile(id, t, f)
    \/ \E id \in CallIds, f \in {"/tmp/f"} : CallsMade < MaxCalls /\ downloadFile(id, f, "utf8")

Spec == Init /\ [][Next]_vars

\* Connections are attempted with every kind of parameters; they become ready,
\* fail and are closed by the remote end.
NextConnect ==
    \/ \E p \in AllParams : connect(p)
    \/ \E c \in 1..MaxClients : ClientReady(c)
    \/ \E c \in 1..MaxClients, m \in ConnErrors : ClientError(c, m)
    \/ \E c \in 1..MaxClients : RemoteClose(c)

SpecConnect == Init /\ [][NextConnect]_vars

\* Time passes over sessions that run commands, and the reaper ticks.
NextReaper ==
    \/ \E p \in PasswordParams : Len(clients) < MaxSessions /\ connect(p)
    \/ \E c \in 1..MaxClients : ClientReady(c)
    \/ \E id \in CallIds, cmd \in Commands : executeCommand(id, cmd)
    \/ ReaperTick
    \/ Tick

SpecReaper == Init /\ [][NextReaper]_vars

\* Commands run and the transport opens their channels, or fails to, and
\* delivers data, close and error events in every order.
NextExec ==
    \/ \E p \in PasswordParams : Len(clients) < MaxSessions /\ connect(p)
    \/ \E c \in 1..MaxClients : ClientReady(c)
    \/ \E id \in CallIds, cmd \in Commands : executeCommand(id, cmd)
    \/ \E k \in 1..MaxExec, m \in {"Channel open failure"} : ExecCallbackError(k, m)
    \/ \E k \in 1..MaxExec : ExecCallbackChannel(k)
    \/ \E k \in 1..MaxExec, d \in {<<97>>} : ChannelData(k, d)
    \/ \E k \in 1..MaxExec : ChannelClose(k)
    \/ \E k \in 1..MaxExec, m \in {"ECONNRESET"} : ChannelError(k, m)

SpecExec == Init /\ [][NextExec]_vars

\* Commands run and the transport delivers exit and close events in every order.
NextExecExit ==
    \/ \E p \in PasswordParams : Len(clients) < MaxSessions /\ connect(p)
    \/ \E c \in 1..MaxClients : ClientReady(c)
    \/ \E id \in CallIds, cmd \in Commands : executeCommand(id, cmd)
    \/ \E k \in 1..MaxExec : ExecCallbackChannel(k)
    \/ \E k \in 1..MaxExec, code \in ExitCodes : ChannelExit(k, code)
    \/ \E k \in 1..MaxExec : ChannelClose(k)

SpecExecExit == Init /\ [][NextExecExit]_vars

\* Commands run and the transport delivers the chunks of both output streams
\* and the close events in every order.
NextExecData ==
    \/ \E p \in PasswordParams : Len(clients) < MaxSessions /\ connect(p)
    \/ \E c \in 1..MaxClients : ClientReady(c)
    \/ \E id \in CallIds, cmd \in Commands : executeCommand(id, cmd)
    \/ \E k \in 1..MaxExec : ExecCallbackChannel(k)
    \/ \E k \in 1..MaxExec, d \in Chunks : ChannelData(k, d)
    \/ \E k \in 1..MaxExec, d \in ErrChunks : ChannelStderrData(k, d)
    \/ \E k \in 1..MaxExec : ChannelClose(k)

SpecExecData == Init /\ [][NextExecData]_vars

\* Uploads run and the transport opens their write streams, or fails to, and
\* delivers close and error events in every order.
NextUpload ==
    \/ \E p \in PasswordParams : Len(clients) < MaxSessions /\ connect(p)
    \/ \E c \in 1..MaxClients : ClientReady(c)
    \/ \E id \in CallIds, t \in Contents, f \in RemotePaths : uploadFile(id, t, f)
    \/ \E u \in 1..MaxUpload, m \in ChannelErrors : UploadSftpError(u, m)
    \/ \E u \in 1..MaxUpload : UploadSftpReady(u)
    \/ \E u \in 1..MaxUpload, m \in ChannelErrors : WriteStreamError(u, m)
    \/ \E u \in 1..MaxUpload : WriteStreamClose(u)

SpecUpload == Init /\ [][NextUpload]_vars

\* Time ranges are extracted from a log file of any lines, or from none; the
\* remote host runs each command to its end.
NextTimeRange ==
    \/ \E p \in PasswordParams : Len(clients) < MaxSessions /\ connect(p)
    \/ \E c \in 1..MaxClients : ClientReady(c)
    \/ \E id \in CallIds, targetTime \in TargetTimes, minutesRange \in 0..MaxMinutes :
           /\ timeRanges = <<>>
           /\ extractLogsByTimeRange(id, LogPath, targetTime, TimePattern, minutesRange)
    \/ \E u \in DOMAIN uploads : UploadSftpReady(u)
    \/ \E u \in DOMAIN uploads : WriteStreamClose(u)
    \/ \E k \in DOMAIN execs : ExecCallbackChannel(k)
    \/ \E k \in DOMAIN execs : ShellStart(k)
    \/ \E k \in DOMAIN execs : ShellOutput(k)
    \/ \E k \in DOMAIN execs : ShellDiagnostics(k)
    \/ \E k \in DOMAIN execs : ShellExit(k)
    \/ \E k \in DOMAIN execs : ShellClose(k)
    \/ \E t \in DOMAIN timeRanges : TimeRangeUploaded(t)
    \/ \E t \in DOMAIN timeRanges : TimeRangeMadeExecutable(t)
    \/ \E t \in DOMAIN timeRanges : TimeRangeExecuted(t)
    \/ \E t \in DOMAIN timeRanges : TimeRangeReturn(t)

SpecTimeRange == InitTimeLogs /\ [][NextTimeRange]_vars

\* A time range is extracted while the session is disconnected or reaped at any
\* moment and the transport fails at any step.
NextTimeRangeFaults ==
    \/ \E p \in PasswordParams : clients = <<>> /\ connect(p)
    \/ \E c \in 1..MaxClients : ClientReady(c)
    \/ \E id \in DOMAIN sessions : Disconnect(id)
    \/ ReaperTick
    \/ Tick
    \/ \E id \in CallIds, targetTime \in TargetTimes :
           /\ timeRanges = <<>>
           /\ extractLogsByTimeRange(id, LogPath, targetTime, TimePattern, MaxMinutes)
    \/ \E u \in DOMAIN uploads, m \in {"Channel open failure"} : UploadSftpError(u, m)
    \/ \E u \in DOMAIN uploads : UploadSftpReady(u)
    \/ \E u \in DOMAIN uploads, m \in {"ECONNRESET"} : WriteStreamError(u, m)
    \/ \E u \in DOMAIN uploads : WriteStreamClose(u)
    \/ \E k \in DOMAIN execs, m \in {"Channel open failure"} : ExecCallbackError(k, m)
    \/ \E k \in DOMAIN execs : ExecCallbackChannel(k)
    \/ \E k \in DOMAIN execs : ShellStart(k)
    \/ \E k \in DOMAIN execs : ShellOutput(k)
    \/ \E k \in DOMAIN execs : ShellDiagnostics(k)
    \/ \E k \in DOMAIN execs : ShellExit(k)
    \/ \E k \in DOMAIN execs : ShellClose(k)
    \/ \E k \in DOMAIN execs, m \in {"ECONNRESET"} : ChannelError(k, m)
    \/ \E t \in DOMAIN timeRanges : TimeRangeUploaded(t)
    \/ \E t \in DOMAIN timeRanges : TimeRangeMadeExecutable(t)
    \/ \E t \in DOMAIN timeRanges : TimeRangeExecuted(t)
    \/ \E t \in DOMAIN timeRanges : TimeRangeReturn(t)

SpecTimeRangeFaults == InitFaultLogs /\ [][NextTimeRangeFaults]_vars

\* Commands and uploads are in flight while their session is disconnected or
\* reaped; the transport then closes the channels and streams of the ended
\* connection, or reports errors on them.
NextInFlight ==
    \/ \E p \in PasswordParams : Len(clients) < MaxSessions /\ connect(p)
    \/ \E c \in 1..MaxClients : ClientReady(c)
    \/ \E id \in DOMAIN sessions : Disconnect(id)
    \/ ReaperTick
    \/ Tick
    \/ \E id \in DOMAIN sessions, cmd \in Commands :
           CallsMade < MaxExec /\ executeCommand(id, cmd)
    \/ \E id \in DOMAIN sessions, t \in Contents, f \in {"/tmp/f"} :
           CallsMade < MaxExec /\ uploadFile(id, t, f)
    \/ \E k \in DOMAIN execs : ExecCallbackChannel(k)
    \/ \E k \in DOMAIN execs, d \in {<<97>>} : ChannelData(k, d)
    \/ \E k \in DOMAIN execs : ChannelClose(k)
    \/ \E k \in DOMAIN execs, m \in {"ECONNRESET"} : ChannelError(k, m)
    \/ \E u \in DOMAIN uploads : UploadSftpReady(u)
    \/ \E u \in DOMAIN uploads : WriteStreamClose(u)
    \/ \E u \in DOMAIN uploads, m \in {"ECONNRESET"} : WriteStreamError(u, m)

SpecInFlight == Init /\ [][NextInFlight]_vars

\* Sessions are opened, disconnected and reaped, and the service is shut
\* down, in every order, while time passes; the transport reports at most one
\* error.
NextLifecycle ==
    \/ \E p \in PasswordParams : connect(p)
    \/ \E c \in 1..MaxClients : ClientReady(c)
    \/ \E c \in DOMAIN clients, m \in {"ECONNREFUSED"} :
           /\ \A d \in DOMAIN clients : ErrorsSeen(clients[d]) = 0
           /\ ClientError(c, m)
    \/ \E id \in 1..(nextId + 1) : Disconnect(id)
    \/ ReaperTick
    \/ Tick
    \/ Cleanup

SpecLifecycle == Init /\ [][NextLifecycle]_vars

\* Sessions are opened, disconnected and reaped until the service is shut
\* down; no connect is called after the shutdown, and the transport goes on
\* answering the connection attempts made before it.
NextShutdown ==
    \/ \E p \in PasswordParams : cleanupInterval /\ connect(p)
    \/ \E c \in DOMAIN clients : ClientReady(c)
    \/ \E c \in DOMAIN clients, m \in {"ECONNREFUSED"} :
           /\ \A d \in DOMAIN clients : ErrorsSeen(clients[d]) = 0
           /\ ClientError(c, m)
    \/ \E id \in DOMAIN sessions : cleanupInterval /\ Disconnect(id)
    \/ ReaperTick
    \/ Tick
    \/ Cleanup

SpecShutdown == Init /\ [][NextShutdown]_vars

\* Time passes between the calls of the five operations on a session; the
\* transport refuses the channel of a command.
NextActivity ==
    \/ \E p \in PasswordParams : Len(clients) < MaxSessions /\ connect(p)
    \/ \E c \in 1..MaxClients : ClientReady(c)
    \/ Tick
    \/ \E id \in DOMAIN sessions, cmd \in Commands : CallsMade < MaxCalls /\ executeCommand(id, cmd)
    \/ \E id \in DOMAIN sessions, t \in Contents, f \in {"/tmp/f"} :
           CallsMade < MaxCalls /\ uploadFile(id, t, f)
    \/ \E id \in DOMAIN sessions, f \in {"/tmp/f"} : CallsMade < MaxCalls /\ downloadFile(id, f, "utf8")
    \/ \E id \in DOMAIN sessions :
           CallsMade < MaxCalls /\ extractLogsByLineRange(id, LogPath, 1, Undefined)
    \/ \E id \in DOMAIN sessions, targetTime \in TargetTimes :
           /\ CallsMade < MaxCalls
           /\ extractLogsByTimeRange(id, LogPath, targetTime, TimePattern, MaxMinutes)
    \/ \E k \in DOMAIN execs, m \in {"Channel open failure"} : ExecCallbackError(k, m)

SpecActivity == Init /\ [][NextActivity]_vars

\* A time range around "2" is extracted from a log file whose lines come in any
\* order, with and without timestamps, once; the remote host runs each command
\* to its end.
NextScan ==
    \/ \E p \in PasswordParams : clients = <<>> /\ connect(p)
    \/ \E c \in DOMAIN clients : ClientReady(c)
    \/ \E id \in DOMAIN sessions, minutesRange \in 0..MaxMinutes :
           /\ timeRanges = <<>>
           /\ extractLogsByTimeRange(id, LogPath, <<50>>, TimePattern, minutesRange)
    \/ \E u \in DOMAIN uploads : UploadSftpReady(u)
    \/ \E u \in DOMAIN uploads : WriteStreamClose(u)
    \/ \E k \in DOMAIN execs : ExecCallbackChannel(k)
    \/ \E k \in DOMAIN execs : ShellStart(k)
    \/ \E k \in DOMAIN execs : ShellOutput(k)
    \/ \E k \in DOMAIN execs : ShellExit(k)
    \/ \E k \in DOMAIN execs : ShellClose(k)
    \/ \E t \in DOMAIN timeRanges : TimeRangeUploaded(t)
    \/ \E t \in DOMAIN timeRanges : TimeRangeMadeExecutable(t)
    \/ \E t \in DOMAIN timeRanges : TimeRangeExecuted(t)
    \/ \E t \in DOMAIN timeRanges : TimeRangeReturn(t)

SpecScan == InitScanLogs /\ [][NextScan]_vars

\* Time ranges are extracted on one session by calls that overlap, made at the
\* same instant or with time passing between them; the remote host runs each
\* command to its end.
NextOverlap ==
    \/ \E p \in PasswordParams : clients = <<>> /\ connect(p)
    \/ \E c \in DOMAIN clients : ClientReady(c)
    \/ timeRanges # <<>> /\ Len(timeRanges) < MaxTimeRange /\ Tick
    \/ \E id \in DOMAIN sessions, targetTime \in TargetTimes :
           extractLogsByTimeRange(id, LogPath, targetTime, TimePattern, 0)
    \/ \E u \in DOMAIN uploads : UploadSftpReady(u)
    \/ \E u \in DOMAIN uploads : WriteStreamClose(u)
    \/ \E k \in DOMAIN execs : ExecCallbackChannel(k)
    \/ \E k \in DOMAIN execs : ShellStart(k)
    \/ \E k \in DOMAIN execs : ShellOutput(k)
    \/ \E k \in DOMAIN execs : ShellDiagnostics(k)
    \/ \E k \in DOMAIN execs : ShellExit(k)
    \/ \E k \in DOMAIN execs : ShellClose(k)
    \/ \E t \in DOMAIN timeRanges : TimeRangeUploaded(t)
    \/ \E t \in DOMAIN timeRanges : TimeRangeMadeExecutable(t)
    \/ \E t \in DOMAIN timeRanges : TimeRangeExecuted(t)
    \/ \E t \in DOMAIN timeRanges : TimeRangeReturn(t)

SpecOverlap == InitFaultLogs /\ [][NextOverlap]_vars

\* A line range and time ranges are extracted on ids that are registered, were
\* never issued or are gone, while the session is disconnected at any moment;
\* the remote host runs each command to its end.
NextMissing ==
    \/ \E p \in PasswordParams : clients = <<>> /\ connect(p)
    \/ \E c \in DOMAIN clients : ClientReady(c)
    \/ \E id \in DOMAIN sessions : Disconnect(id)
    \/ \E id \in 1..(nextId + 1) :
           /\ lineRanges = <<>>
           /\ extractLogsByLineRange(id, LogPath, 1, Undefined)
    \/ \E id \in 1..(nextId + 1) :
           /\ \A t \in DOMAIN timeRanges : ~Pending(timeRanges[t])
           /\ extractLogsByTimeRange(id, LogPath, <<50>>, TimePattern, 0)
    \/ \E u \in DOMAIN uploads : UploadSftpReady(u)
    \/ \E u \in DOMAIN uploads : WriteStreamClose(u)
    \/ \E k \in DOMAIN execs : ExecCallbackChannel(k)
    \/ \E k \in DOMAIN execs : ShellStart(k)
    \/ \E k \in DOMAIN execs : ShellOutput(k)
    \/ \E k \in DOMAIN execs : ShellExit(k)
    \/ \E k \in DOMAIN execs : ShellClose(k)
    \/ \E r \in DOMAIN lineRanges : LineRangeReturn(r)
    \/ \E t \in DOMAIN timeRanges : TimeRangeUploaded(t)
    \/ \E t \in DOMAIN timeRanges : TimeRangeMadeExecutable(t)
    \/ \E t \in DOMAIN timeRanges : TimeRangeExecuted(t)
    \/ \E t \in DOMAIN timeRanges : TimeRangeReturn(t)

SpecMissing == InitFaultLogs /\ [][NextMissing]_vars

\* One command runs on one session: the session is opened and the command is
\* invoked when the clock starts, then time passes while the channel delivers
\* output, the exit status and its close, and the reaper fires.
NextRunning ==
    \/ \E p \in PasswordParams : clients = <<>> /\ connect(p)
    \/ \E c \in DOMAIN clients : ClientReady(c)
    \/ \E id \in DOMAIN sessions, cmd \in Commands : execs = <<>> /\ executeCommand(id, cmd)
    \/ \E k \in DOMAIN execs : ExecCallbackChannel(k)
    \/ \E k \in DOMAIN execs, d \in {<<97>>} : ChannelData(k, d)
    \/ \E k \in DOMAIN execs, d \in {<<98>>} : ChannelStderrData(k, d)
    \/ \E k \in DOMAIN execs, code \in {0, 1} : ChannelExit(k, code)
    \/ \E k \in DOMAIN execs : ChannelClose(k)
    \/ execs # <<>> /\ Tick
    \/ ReaperTick

SpecRunning == Init /\ [][NextRunning]_vars

\* No operation has been called on a session yet
NoCallYet == CallsMade = 0 /\ lineRanges = <<>> /\ timeRanges = <<>>

\* One connection is attempted and one operation is called on its session,
\* while the session is disconnected or reaped at any moment and time passes
\* once the operation has begun; the transport
\* answers every request and ends every channel and stream, with success or
\* with an error.
NextSettle ==
    \/ \E p \in PasswordParams : clients = <<>> /\ connect(p)
    \/ \E c \in DOMAIN clients : ClientReady(c)
    \/ \E c \in DOMAIN clients, m \in {"ECONNREFUSED"} : ClientError(c, m)
    \/ \E id \in DOMAIN sessions : Disconnect(id)
    \/ ReaperTick
    \/ ~NoCallYet /\ Tick
    \/ \E id \in DOMAIN sessions, cmd \in Commands : NoCallYet /\ executeCommand(id, cmd)
    \/ \E id \in DOMAIN sessions, t \in Contents, f \in {"/tmp/f"} :
           NoCallYet /\ uploadFile(id, t, f)
    \/ \E id \in DOMAIN sessions : NoCallYet /\ downloadFile(id, LogPath, "utf8")
    \/ \E id \in DOMAIN sessions :
           NoCallYet /\ extractLogsByLineRange(id, LogPath, 1, Undefined)
    \/ \E id \in DOMAIN sessions :
           NoCallYet /\ extractLogsByTimeRange(id, LogPath, <<50>>, TimePattern, 0)
    \/ \E k \in DOMAIN execs, m \in {"Channel open failure"} : ExecCallbackError(k, m)
    \/ \E k \in DOMAIN execs : ExecCallbackChannel(k)
    \/ \E k \in DOMAIN execs : ChannelClose(k)
    \/ \E k \in DOMAIN execs, m \in {"ECONNRESET"} : ChannelError(k, m)
    \/ \E u \in DOMAIN uploads, m \in {"Channel open failure"} : UploadSftpError(u, m)
    \/ \E u \in DOMAIN uploads : UploadSftpReady(u)
    \/ \E u \in DOMAIN uploads : WriteStreamClose(u)
    \/ \E u \in DOMAIN uploads, m \in {"ECONNRESET"} : WriteStreamError(u, m)
    \/ \E d \in DOMAIN downloads, m \in {"Channel open failure"} : DownloadSftpError(d, m)
    \/ \E d \in DOMAIN downloads : DownloadSftpReady(d)
    \/ \E d \in DOMAIN downloads, n \in 1..MaxChunk : ReadStreamData(d, n)
    \/ \E d \in DOMAIN downloads : ReadStreamEnd(d)
    \/ \E d \in DOMAIN downloads, m \in {"ECONNRESET"} : ReadStreamError(d, m)
    \/ \E r \in DOMAIN lineRanges : LineRangeReturn(r)
    \/ \E t \in DOMAIN timeRanges : TimeRangeUploaded(t)
    \/ \E t \in DOMAIN timeRanges : TimeRangeMadeExecutable(t)
    \/ \E t \in DOMAIN timeRanges : TimeRangeExecuted(t)
    \/ \E t \in DOMAIN timeRanges : TimeRangeReturn(t)

\* The calls of a behaviour, by index: an operation and the commands it makes
CallIndices == 1..(MaxExec + 1)

\* The transport answers connection attempt c: ready, or an error
ConnectionAnswered(c) ==
    /\ c \in DOMAIN clients
    /\ ~ReadySeen(clients[c]) /\ ErrorsSeen(clients[c]) = 0
    /\ ClientReady(c) \/ ClientError(c, "ECONNREFUSED")

\* The transport answers the request for a channel or for the sftp subsystem
ExecAnswered(k) ==
    /\ k \in DOMAIN execs
    /\ ExecCallbackChannel(k) \/ ExecCallbackError(k, "Channel open failure")

UploadAnswered(u) ==
    /\ u \in DOMAIN uploads
    /\ UploadSftpReady(u) \/ UploadSftpError(u, "Channel open failure")

DownloadAnswered(d) ==
    /\ d \in DOMAIN downloads
    /\ DownloadSftpReady(d) \/ DownloadSftpError(d, "Channel open failure")

\* The transport ends a channel or a stream it opened: close or error, end or
\* error for a read stream
ChannelEnded(k) ==
    /\ k \in DOMAIN execs
    /\ ~Delivered(execs[k], "close") /\ ~Delivered(execs[k], "error")
    /\ ChannelClose(k) \/ ChannelError(k, "ECONNRESET")

WriteStreamEnded(u) ==
    /\ u \in DOMAIN uploads
    /\ ~Delivered(uploads[u], "close") /\ ~Delivered(uploads[u], "error")
    /\ WriteStreamClose(u) \/ WriteStreamError(u, "ECONNRESET")

ReadStreamEnded(d) ==
    /\ d \in DOMAIN downloads
    /\ ~Delivered(downloads[d], "end") /\ ~Delivered(downloads[d], "error")
    /\ ReadStreamEnd(d) \/ ReadStreamError(d, "ECONNRESET")

\* The transport delivers what the claim assumes of it, and the runtime runs
\* the continuation of an await whose promise has settled
SpecSettle ==
    /\ InitFaultLogs
    /\ [][NextSettle]_vars
    /\ \A i \in CallIndices :
          /\ WF_vars(ConnectionAnswered(i))
          /\ WF_vars(ExecAnswered(i))
          /\ WF_vars(UploadAnswered(i))
          /\ WF_vars(DownloadAnswered(i))
          /\ WF_vars(ChannelEnded(i))
          /\ WF_vars(WriteStreamEnded(i))
          /\ WF_vars(ReadStreamEnded(i))
          /\ WF_vars(LineRangeReturn(i))
          /\ WF_vars(TimeRangeUploaded(i))
          /\ WF_vars(TimeRangeMadeExecutable(i))
          /\ WF_vars(TimeRangeExecuted(i))
          /\ WF_vars(TimeRangeReturn(i))

\* The filePath arguments: the path of the log file, and a text that holds a
\* command substitution
FilePaths == {LogPath, SubstitutedPath}

\* One line range and one time range are extracted from a log file, with a
\* filePath that is a plain path or holds a command substitution; the remote
\* host runs each command to its end.
NextParameters ==
    \/ \E p \in PasswordParams : clients = <<>> /\ connect(p)
    \/ \E c \in DOMAIN clients : ClientReady(c)
    \/ \E id \in DOMAIN sessions, filePath \in FilePaths, endLine \in {Undefined, Some(1)} :
           /\ lineRanges = <<>>
           /\ extractLogsByLineRange(id, filePath, 1, endLine)
    \/ \E id \in DOMAIN sessions, filePath \in FilePaths :
           /\ timeRanges = <<>>
           /\ extractLogsByTimeRange(id, filePath, <<50>>, TimePattern, 0)
    \/ \E u \in DOMAIN uploads : UploadSftpReady(u)
    \/ \E u \in DOMAIN uploads : WriteStreamClose(u)
    \/ \E k \in DOMAIN execs : ExecCallbackChannel(k)
    \/ \E k \in DOMAIN execs : ShellStart(k)
    \/ \E k \in DOMAIN execs : ShellOutput(k)
    \/ \E k \in DOMAIN execs : ShellDiagnostics(k)
    \/ \E k \in DOMAIN execs : ShellExit(k)
    \/ \E k \in DOMAIN execs : ShellClose(k)
    \/ \E r \in DOMAIN lineRanges : LineRangeReturn(r)
    \/ \E t \in DOMAIN timeRanges : TimeRangeUploaded(t)
    \/ \E t \in DOMAIN timeRanges : TimeRangeMadeExecutable(t)
    \/ \E t \in DOMAIN timeRanges : TimeRangeExecuted(t)
    \/ \E t \in DOMAIN timeRanges : TimeRangeReturn(t)

SpecParameters == InitFaultLogs /\ [][NextParameters]_vars

\* Line ranges are extracted from a log file of any content, or from none; the
\* remote host runs the command to its end, or the transport fails.
NextLineRange ==
    \/ \E p \in PasswordParams : Len(clients) < MaxSessions /\ connect(p)
    \/ \E c \in 1..MaxClients : ClientReady(c)
    \/ \E id \in CallIds, startLine \in 1..MaxLine, endLine \in EndLines :
           /\ lineRanges = <<>>
           /\ extractLogsByLineRange(id, LogPath, startLine, endLine)
    \/ \E k \in 1..MaxExec, m \in {"Channel open failure"} : ExecCallbackError(k, m)
    \/ \E k \in 1..MaxExec : ExecCallbackChannel(k)
    \/ \E k \in 1..MaxExec : ShellStart(k)
    \/ \E k \in 1..MaxExec : ShellOutput(k)
    \/ \E k \in 1..MaxExec : ShellDiagnostics(k)
    \/ \E k \in 1..MaxExec : ShellExit(k)
    \/ \E k \in 1..MaxExec : ShellClose(k)
    \/ \E r \in 1..MaxLineRange : LineRangeReturn(r)

SpecLineRange == InitLogs /\ [][NextLineRange]_vars

\* Files are uploaded and read back; the transport delivers the bytes of a
\* file in chunks of every size, and reports errors.
NextDownload ==
    \/ \E p \in PasswordParams : Len(clients) < MaxSessions /\ connect(p)
    \/ \E c \in 1..MaxClients : ClientReady(c)
    \/ \E t \in Texts, f \in {"/tmp/f"} : uploadFile(1, t, f)
    \/ \E u \in 1..MaxUpload : UploadSftpReady(u)
    \/ \E u \in 1..MaxUpload : WriteStreamClose(u)
    \/ \E id \in CallIds, f \in {"/tmp/f"}, enc \in Encodings : downloadFile(id, f, enc)
    \/ \E d \in 1..MaxDownload, m \in {"Channel open failure"} : DownloadSftpError(d, m)
    \/ \E d \in 1..MaxDownload : DownloadSftpReady(d)
    \/ \E d \in 1..MaxDownload, n \in 1..MaxChunk : ReadStreamData(d, n)
    \/ \E d \in 1..MaxDownload, m \in {"ECONNRESET"} : ReadStreamError(d, m)
    \/ \E d \in 1..MaxDownload : ReadStreamEnd(d)

SpecDownload == Init /\ [][NextDownload]_vars

\* ------------------------------------------------------------- properties
Last(q) == q[Len(q)]

\* The connect call that returned session id
ClientOf(id) ==
    CHOOSE c \in DOMAIN clients : clients[c].result.success /\ clients[c].result.sessionId = id

SessionOfClient(c) == {id \in DOMAIN sessions : sessions[id].client = c}

\* A call begun in this step on an id that is not a key of the registry
MissingCall(calls, calls2) ==
    /\ Len(calls2) = Len(calls) + 1
    /\ Last(calls2).sid \notin DOMAIN sessions

\* The call is rejected with 'Session not found', no channel or stream was asked
\* for on any connection, and nothing else changed.
FailsUntouched(calls, calls2) ==
    /\ calls2 = Append(calls, Last(calls2))
    /\ Last(calls2).promise = "rejected"
    /\ Last(calls2).error = SessionNotFound
    /\ Last(calls2).phase = "none"
    /\ Last(calls2).client = 0
    /\ sessions' = sessions
    /\ clients' = clients

\* C1: executeCommand, uploadFile and downloadFile on an id that is not a key of
\* the registry are rejected with 'Session not found', open no channel or
\* stream on any connection and leave the registry unchanged.
C1_MissingSessionFails ==
    [][ /\ MissingCall(execs, execs') =>
               FailsUntouched(execs, execs') /\ UNCHANGED <<uploads, downloads>>
        /\ MissingCall(uploads, uploads') =>
               FailsUntouched(uploads, uploads') /\ UNCHANGED <<execs, downloads>>
        /\ MissingCall(downloads, downloads') =>
               FailsUntouched(downloads, downloads') /\ UNCHANGED <<execs, uploads>>
      ]_vars

\* A command on a disconnected id, an upload and a download on ids that were
\* never issued or are gone, all rejected with 'Session not found'
C1_Witness ==
    /\ \E k \in DOMAIN execs :
          /\ execs[k].error = SessionNotFound
          /\ \E i \in DOMAIN discLog : discLog[i].ret /\ discLog[i].id = execs[k].sid
    /\ \E u \in DOMAIN uploads : uploads[u].error = SessionNotFound
    /\ \E d \in DOMAIN downloads :
          downloads[d].error = SessionNotFound /\ downloads[d].sid > nextId

\* C2: a session is in the registry if and only if its connection has been
\* authenticated and has not been closed, by the core or by the remote end.
C2_RegistryIffOpen ==
    \A c \in DOMAIN clients :
        (SessionOfClient(c) # {}) <=> (ReadySeen(clients[c]) /\ ~Closed(c))

\* C3: disconnect(id) returns true exactly when id is in the registry and then
\* removes it; a second disconnect(id) returns false; a disconnect that returns
\* false changes neither the registry nor any connection.
C3_DisconnectOnce ==
    [][ Len(discLog') = Len(discLog) + 1 =>
          LET e == Last(discLog')
          IN  /\ e.ret <=> e.id \in DOMAIN sessions
              /\ e.id \notin DOMAIN sessions'
              /\ \A i \in DOMAIN discLog :
                    discLog[i].id = e.id /\ discLog[i].ret => ~e.ret
              /\ ~e.ret => sessions' = sessions /\ clients' = clients
      ]_vars

\* disconnect of a registered id answered true and the same call again false
C3_Witness ==
    \E i, j \in DOMAIN discLog :
        /\ i < j
        /\ discLog[i].id = discLog[j].id
        /\ discLog[i].ret
        /\ ~discLog[j].ret

\* The connection reported an error before it reported ready
FailedFirst(cl) == cl.connectCalled /\ cl.events # <<>> /\ cl.events[1] # "ready"

\* C4: when the connection reports an error before ready, connect returns
\* success=false with an empty sessionId and the error's message, the
\* connection is never in the registry, and end was called on it.
C4_FailedConnectIsolated ==
    \A c \in DOMAIN clients :
        FailedFirst(clients[c]) =>
            /\ clients[c].result = FailResult(clients[c].events[1])
            /\ SessionOfClient(c) = {}
            /\ clients[c].endCalls >= 1

\* A connection that failed and reported ready afterwards
C4_Witness ==
    \E c \in DOMAIN clients :
        /\ FailedFirst(clients[c])
        /\ ReadySeen(clients[c])
        /\ clients[c].result.returned

NoCredentials(cl) == cl.params.password = "absent" /\ cl.params.privateKey = "absent"

\* C5: connect with neither a password nor a private key fails with 'No
\* authentication method provided', never starts a network connection on the
\* client, and leaves the registry unchanged.
C5_NoAuthNoNetwork ==
    [][ /\ \A c \in DOMAIN clients' :
              NoCredentials(clients'[c]) =>
                  /\ clients'[c].result = FailResult(NoAuthMethod)
                  /\ ~clients'[c].connectCalled
                  /\ clients'[c].events = <<>>
                  /\ SessionOfClient(c)' = {}
        /\ (Len(clients') = Len(clients) + 1 /\ NoCredentials(Last(clients'))) =>
              sessions' = sessions
      ]_vars

\* A connect without credentials returned beside a registered session
C5_Witness ==
    /\ DOMAIN sessions # {}
    /\ \E c \in DOMAIN clients :
          NoCredentials(clients[c]) /\ clients[c].result.error = NoAuthMethod

\* C6: a session past the timeout at a reaper tick is absent from the registry
\* after the tick, its connection has been closed, and every later
\* executeCommand with its id fails with 'Session not found'.
C6_IdleReaped ==
    [][ /\ \A id \in reaped' :
              /\ id \notin DOMAIN sessions'
              /\ clients'[ClientOf(id)'].endCalls >= 1
        /\ (Len(execs') = Len(execs) + 1 /\ Last(execs').sid \in reaped) =>
              /\ Last(execs').promise = "rejected"
              /\ Last(execs').error = SessionNotFound
      ]_vars

\* A reaped session, and a command on its id rejected afterwards
C6_Witness ==
    \E k \in DOMAIN execs :
        /\ execs[k].sid \in reaped
        /\ execs[k].error = SessionNotFound
\* The place of the first event of a kind on a call, 0 when there is none
First(call, kind) ==
    IF Delivered(call, kind)
    THEN CHOOSE i \in DOMAIN call.events :
            /\ call.events[i].kind = kind
            /\ \A j \in 1..(i - 1) : call.events[j].kind # kind
    ELSE 0

\* close was delivered and no error before it
ClosedClean(call) ==
    /\ Delivered(call, "close")
    /\ ~(Delivered(call, "error") /\ First(call, "error") < First(call, "close"))

\* an error was delivered and no close before it
ErrorFirst(call) ==
    /\ Delivered(call, "error")
    /\ ~(Delivered(call, "close") /\ First(call, "close") < First(call, "error"))

\* How a call stands given what was delivered on it: resolved exactly at a close
\* that no error preceded, rejected with the error of the callback or of the
\* first error event that no close preceded, pending otherwise.
SettledByEvents(call) ==
    /\ call.promise = "resolved" <=> ClosedClean(call)
    /\ call.promise = "rejected" <=>
          \/ call.phase = "none"
          \/ call.phase = "failed"
          \/ ErrorFirst(call)
    /\ call.phase = "none" => call.error = SessionNotFound
    /\ call.phase = "failed" => call.error = call.events[First(call, "callback-error")].msg
    /\ ErrorFirst(call) => call.error = call.events[First(call, "error")].msg

\* Once settled, the outcome, the result and the error stay as they are
StaysSettled(call, call2) ==
    ~Pending(call) =>
        /\ call2.promise = call.promise
        /\ call2.result = call.result
        /\ call2.error = call.error

\* C7: an executeCommand call resolves only at the channel's close event and
\* only if no channel error came before it, rejects with the error if a channel
\* error or a channel-open error comes first, and events delivered after it has
\* settled change neither the outcome nor the result.
C7_ExecSettlesOnce ==
    [][ \A k \in DOMAIN execs' :
          /\ SettledByEvents(execs'[k])
          /\ k \in DOMAIN execs => StaysSettled(execs[k], execs'[k])
      ]_vars

\* A call rejected by a channel error whose channel closed afterwards, and a
\* call resolved at close that got data afterwards
C7_Witness ==
    \E k, j \in DOMAIN execs :
        /\ execs[k].promise = "rejected"
        /\ ErrorFirst(execs[k])
        /\ Delivered(execs[k], "close")
        /\ execs[j].promise = "resolved"
        /\ Last(execs[j].events).kind = "data"

RECURSIVE TextOf(_, _, _)
\* The decoded chunks of one kind among the first n events, joined in order
TextOf(events, kind, n) ==
    IF n = 0 THEN <<>>
    ELSE TextOf(events, kind, n - 1) \o
             (IF events[n].kind = kind THEN BufToString(events[n].data) ELSE <<>>)

\* C8: stdout of a resolved executeCommand is the concatenation, in delivery
\* order, of exactly the primary-stream chunks delivered on its own channel
\* before close, and stderr likewise for the error stream, under every
\* interleaving of calls.
C8_OutputPerChannel ==
    \A k \in DOMAIN execs :
        execs[k].promise = "resolved" =>
            LET c == First(execs[k], "close")
            IN  /\ execs[k].result.stdout = TextOf(execs[k].events, "data", c)
                /\ execs[k].result.stderr = TextOf(execs[k].events, "stderr", c)

\* A call resolved with two different chunks in order while another channel
\* of the same session had received a chunk in between
C8_Witness ==
    \E k, j \in DOMAIN execs :
        /\ k # j
        /\ execs[k].sid = execs[j].sid
        /\ execs[k].promise = "resolved"
        /\ execs[k].result.stdout = <<97, 65533>>
        /\ execs[j].stdout # <<>>

\* The code of the exit event delivered before close, NullCode when none was
ExitBeforeClose(call) ==
    LET c == First(call, "close")
        x == First(call, "exit")
    IN  IF x # 0 /\ x < c THEN call.events[x].code ELSE NullCode

\* C9: exitCode of a resolved executeCommand is the code of the exit event
\* delivered before close, and 0 when there was none or it carried no code.
C9_ExitCode ==
    \A k \in DOMAIN execs :
        execs[k].promise = "resolved" =>
            execs[k].result.exitCode =
                (IF ExitBeforeClose(execs[k]) = NullCode THEN 0 ELSE ExitBeforeClose(execs[k]))

\* One call resolved with the code 2 of its exit event, another with 0 after an
\* exit event without a code
C9_Witness ==
    \E k, j \in DOMAIN execs :
        /\ execs[k].promise = "resolved"
        /\ execs[k].result.exitCode = 2
        /\ execs[j].promise = "resolved"
        /\ Delivered(execs[j], "exit")
        /\ ExitBeforeClose(execs[j]) = NullCode
        /\ execs[j].result.exitCode = 0

\* C10: uploadFile resolves with success=true and the given remotePath only at
\* the write stream's close with no stream error before it; when a stream error
\* or an error opening the transfer subsystem comes first it rejects with that
\* error and never reports success, even if close follows.
C10_UploadSettlesOnce ==
    [][ \A u \in DOMAIN uploads' :
          /\ SettledByEvents(uploads'[u])
          /\ uploads'[u].promise = "resolved" =>
                uploads'[u].result = [success |-> TRUE, remotePath |-> uploads'[u].remotePath]
          /\ uploads'[u].promise # "resolved" => ~uploads'[u].result.success
          /\ u \in DOMAIN uploads => StaysSettled(uploads[u], uploads'[u])
      ]_vars

\* An upload rejected by a stream error whose stream closed afterwards, and
\* an upload to another path that succeeded
C10_Witness ==
    \E u, v \in DOMAIN uploads :
        /\ uploads[u].promise = "rejected"
        /\ ErrorFirst(uploads[u])
        /\ Delivered(uploads[u], "close")
        /\ uploads[v].result.success
        /\ uploads[v].remotePath # uploads[u].remotePath
\* The only uploadFile call whose stream wrote to its path
OnlyWrite(u) ==
    \A u2 \in DOMAIN uploads :
        (u2 # u /\ uploads[u2].remotePath = uploads[u].remotePath)
            => uploads[u2].phase # "open"

\* A download made on a live session after upload u had resolved, of the path
\* u alone wrote, with the default encoding, whose stream ended without error
ReadBack(d, u) ==
    /\ u \in downloads[d].settledUploads
    /\ uploads[u].result.success
    /\ OnlyWrite(u)
    /\ downloads[d].remotePath = uploads[u].remotePath
    /\ downloads[d].encoding = "utf8"
    /\ Delivered(downloads[d], "end")
    /\ ~Delivered(downloads[d], "error")

\* C11: a download with the default encoding that follows a successful upload
\* to the same path, with no other write in between, returns success = true
\* and the uploaded content.
C11_RoundTrip ==
    \A d \in DOMAIN downloads, u \in DOMAIN uploads :
        ReadBack(d, u) =>
            /\ downloads[d].promise = "resolved"
            /\ downloads[d].result.success
            /\ downloads[d].result.content = uploads[u].content

\* C12: the content of a successful download is the decoding, in the requested
\* encoding, of the concatenation of all the bytes received, wherever the chunk
\* boundaries fall.
C12_ChunkingIrrelevant ==
    \A d \in DOMAIN downloads :
        (downloads[d].promise = "resolved" /\ downloads[d].result.success) =>
            downloads[d].result.content =
                BufToStringIn(TextOfData(downloads[d].events), downloads[d].encoding)

\* The lines lo to hi of a file, as the text a command returns
LinesBetween(b, lo, hi) ==
    BufToString(Join(SubSeq(FileLines(b), lo, Min(hi, Len(FileLines(b))))))

\* A line-range call on an existing file that returned success = true
Extracted(r) ==
    /\ LogPath \in DOMAIN remote
    /\ lineRanges[r].promise = "resolved"
    /\ lineRanges[r].result.success

\* C13: with 1 <= startLine <= endLine, a successful extractLogsByLineRange
\* returns exactly the lines of the file whose index lies in [startLine,
\* endLine], also when the file has fewer than endLine lines, and echoes
\* startLine and endLine.
C13_ClosedInterval ==
    \A r \in DOMAIN lineRanges :
        LET c == lineRanges[r]
        IN  (Extracted(r) /\ c.endLine # Undefined /\ c.startLine <= c.endLine[1]) =>
                /\ c.result.content =
                       Str("", LinesBetween(remote[LogPath], c.startLine, c.endLine[1]))
                /\ c.result.startLine = Some(c.startLine)
                /\ c.result.endLine = c.endLine

\* C14: with endLine omitted, a successful extractLogsByLineRange returns the
\* lines from startLine to the end of the file, and the command that reads to
\* the end of the file is used only when the caller omitted endLine.
C14_OpenEnded ==
    \A r \in DOMAIN lineRanges :
        LET c == lineRanges[r]
        IN  /\ (Extracted(r) /\ c.endLine = Undefined) =>
                   c.result.content =
                       Str("", LinesBetween(remote[LogPath], c.startLine,
                                            Len(FileLines(remote[LogPath]))))
            /\ (c.exec # 0 /\ execs[c.exec].command.prog = "tail+") =>
                   c.endLine = Undefined

\* The file ends with a newline
NewlineTerminated(b) == b # <<>> /\ b[Len(b)] = Newline

\* C15: when a successful extractLogsByLineRange returns k >= 1 lines of a
\* newline-terminated file, lineCount is k.
C15_LineCount ==
    \A r \in DOMAIN lineRanges :
        LET c == lineRanges[r]
        IN  (/\ Extracted(r)
             /\ NewlineTerminated(remote[LogPath])
             /\ c.result.content.output # <<>>) =>
                c.result.lineCount = Len(FileLines(c.result.content.output))

\* The result carries neither a line range nor a time range
NoRangeFields(result) ==
    /\ result.startLine = Undefined
    /\ result.endLine = Undefined
    /\ result.startTime = Undefined
    /\ result.endTime = Undefined

\* A failed result whose content carries the diagnostics of the command
FailsWithDiagnostics(result, command) ==
    /\ ~result.success
    /\ result.lineCount = 0
    /\ NoRangeFields(result)
    /\ result.content.output = command.result.stderr

\* The command of a call, made, closed and with a nonzero exit status
ExitedNonzero(k) ==
    /\ k # 0
    /\ execs[k].promise = "resolved"
    /\ execs[k].result.exitCode # 0

\* C16: in both extraction modes, when the command that produces the
\* extraction exits with a nonzero status, the call returns success = false,
\* lineCount = 0, no range or time fields, and a content that carries the
\* remote stderr text.
C16_NonzeroExitFails ==
    /\ \A r \in DOMAIN lineRanges :
          (lineRanges[r].promise = "resolved" /\ ExitedNonzero(lineRanges[r].exec)) =>
              FailsWithDiagnostics(lineRanges[r].result, execs[lineRanges[r].exec])
    /\ \A t \in DOMAIN timeRanges :
          (timeRanges[t].promise = "resolved" /\ ExitedNonzero(timeRanges[t].run)) =>
              FailsWithDiagnostics(timeRanges[t].result, execs[timeRanges[t].run])

RECURSIVE Stripped(_)
\* Lines without their newlines
Stripped(lines) ==
    IF lines = <<>> THEN <<>>
    ELSE <<SelectSeq(Head(lines), LAMBDA c : c # Newline)>> \o Stripped(Tail(lines))

\* The instant of a line that carries one timestamp date understands
InstantOf(line) == DateSeconds(OnePerLine(Matches(line, TimePattern)))

\* Every line of the file carries a parseable timestamp and the timestamps
\* never decrease
Monotonic(lines) ==
    /\ \A i \in DOMAIN lines : InstantOf(lines[i]) # Undefined
    /\ \A i, j \in DOMAIN lines : i < j => InstantOf(lines[i])[1] <= InstantOf(lines[j])[1]

\* The lines whose instant lies in [lo, hi], in file order
InWindow(lines, lo, hi) ==
    SelectSeq(lines, LAMBDA l : InstantOf(l)[1] >= lo /\ InstantOf(l)[1] <= hi)

\* C17: on a log file with non-decreasing timestamps where every line carries
\* a parseable timestamp, extractLogsByTimeRange returns exactly the lines
\* whose instant lies in [targetTime - minutesRange * 60, targetTime +
\* minutesRange * 60], in file order, their number as lineCount, and the
\* timestamps of the first and of the last of them as startTime and endTime.
C17_ClosedWindow ==
    \A t \in DOMAIN timeRanges :
        LET c == timeRanges[t]
            lines == Stripped(FileLines(remote[LogPath]))
            target == DateSeconds(c.targetTime)
            expected == InWindow(lines, target[1] - c.minutesRange * 60,
                                 target[1] + c.minutesRange * 60)
        IN  (/\ c.promise = "resolved"
             /\ LogPath \in DOMAIN remote
             /\ target # Undefined
             /\ Monotonic(lines)) =>
                /\ c.result.success
                /\ Stripped(FileLines(c.result.content.output)) = expected
                /\ c.result.lineCount = Len(expected)
                /\ expected # <<>> =>
                      /\ c.result.startTime = Some(Matches(expected[1], TimePattern))
                      /\ c.result.endTime = Some(Matches(expected[Len(expected)], TimePattern))

\* The call was started on a live session: it got past getSession
Started(t) == timeRanges[t].upload # 0

\* The step of a started call that failed first, and the text of its error
FirstFailure(t) ==
    LET c == timeRanges[t]
        Step(k) == IF k = 0 THEN SessionNotFound
                   ELSE IF execs[k].promise = "rejected" THEN execs[k].error
                   ELSE NoError
    IN  IF uploads[c.upload].promise = "rejected" THEN uploads[c.upload].error
        ELSE IF Step(c.chmod) # NoError THEN Step(c.chmod)
        ELSE IF Step(c.run) # NoError THEN Step(c.run)
        ELSE IF Step(c.rm) # NoError THEN Step(c.rm)
        ELSE IF execs[c.run].result.exitCode # 0 THEN FailedToExtract
        ELSE IF ~JsonParse(execs[c.run].result.stdout).ok THEN JsonSyntaxError
        ELSE NoError

\* C18: once extractLogsByTimeRange has started on a live session it never
\* rejects, and when the upload, a command, the script's exit status, the
\* parsing of its output or the removal of the session between two steps
\* fails, it returns a result with success = false and the text of that error.
C18_FailuresReturned ==
    \A t \in DOMAIN timeRanges :
        Started(t) =>
            /\ timeRanges[t].promise # "rejected"
            /\ (timeRanges[t].promise = "resolved" /\ FirstFailure(t) # NoError) =>
                  /\ ~timeRanges[t].result.success
                  /\ timeRanges[t].result.lineCount = 0
                  /\ timeRanges[t].result.content.text = FirstFailure(t)

\* A call returned a failure after a disconnect removed its session between
\* the upload and the chmod command
C18_Witness ==
    \E t \in DOMAIN timeRanges :
        /\ timeRanges[t].promise = "resolved"
        /\ uploads[timeRanges[t].upload].promise = "resolved"
        /\ timeRanges[t].chmod = 0
        /\ \E i \in DOMAIN discLog : discLog[i].ret /\ discLog[i].id = timeRanges[t].sid
        /\ timeRanges[t].result = CaughtResult(Str(SessionNotFound, <<>>))

\* C19: when the script upload succeeded and the session is still registered,
\* an rm command has been issued by the time the call returns, whatever the
\* outcome of the chmod command and of the script.
C19_ScriptRemoved ==
    \A t \in DOMAIN timeRanges :
        (/\ Started(t)
         /\ timeRanges[t].promise = "resolved"
         /\ uploads[timeRanges[t].upload].promise = "resolved"
         /\ timeRanges[t].sid \in DOMAIN sessions) =>
            timeRanges[t].rm # 0

\* C20: when the script exited with status 0 and its output is a parseable
\* payload, the call returns success = true with the content of the payload,
\* however the rm command ended and even if it could not be issued.
C20_CleanupSwallowed ==
    \A t \in DOMAIN timeRanges :
        LET c == timeRanges[t]
        IN  (/\ c.promise = "resolved"
             /\ c.run # 0
             /\ execs[c.run].promise = "resolved"
             /\ execs[c.run].result.exitCode = 0
             /\ JsonParse(execs[c.run].result.stdout).ok) =>
                /\ c.result.success
                /\ c.result.content =
                      Str("", JsonParse(execs[c.run].result.stdout).value[KeyContent].str)

\* The calls of one kind that are in flight on a session that is gone: the
\* session was registered when the call was made, the call has not settled,
\* and the session has been disconnected or reaped since
InFlightOrphans(calls) ==
    {k \in DOMAIN calls :
        /\ calls[k].phase \in {"requested", "open"}
        /\ Pending(calls[k])
        /\ calls[k].sid \notin DOMAIN sessions}

\* C21: a command or a transfer that is in flight when its session is
\* disconnected or reaped never resolves afterwards with a result built from
\* what it had received; it can only end with an error.
C21_InFlightFails ==
    [][ /\ \A k \in InFlightOrphans(execs) : execs'[k].promise # "resolved"
        /\ \A u \in InFlightOrphans(uploads) : uploads'[u].promise # "resolved"
        /\ \A d \in InFlightOrphans(downloads) : downloads'[d].promise # "resolved"
      ]_vars

\* The connection of client c was registered as a session and the session is
\* no longer in the registry
Removed(c) ==
    clients[c].result.success /\ clients[c].result.sessionId \notin DOMAIN sessions

\* C22: under every order and repetition of disconnect, reaper ticks and
\* cleanup, end is called exactly once on the connection of every session that
\* was removed from the registry, and on no connection twice.
C22_ClosedExactlyOnce ==
    \A c \in DOMAIN clients :
        /\ clients[c].endCalls <= 1
        /\ Removed(c) => clients[c].endCalls = 1

\* One session removed by a disconnect that was then repeated, another by the
\* reaper, and cleanup called afterwards
C22_Witness ==
    /\ ~cleanupInterval
    /\ \E c, d \in DOMAIN clients :
          /\ Removed(c) /\ Removed(d)
          /\ clients[c].result.sessionId \in reaped
          /\ \E i, j \in DOMAIN discLog :
                /\ i < j
                /\ discLog[i].id = clients[d].result.sessionId
                /\ discLog[j].id = clients[d].result.sessionId
                /\ discLog[i].ret

\* C23: a successful connect returns an id that no earlier successful connect
\* has returned, whether or not that session is still registered, and a
\* registered session stays under the id that connect returned for it.
C23_IdsNeverReused ==
    /\ \A c, d \in DOMAIN clients :
          (c # d /\ clients[c].result.success /\ clients[d].result.success) =>
              clients[c].result.sessionId # clients[d].result.sessionId
    /\ \A c \in DOMAIN clients : clients[c].result.success => clients[c].result.sessionId # EmptyId
    /\ \A id \in DOMAIN sessions : clients[sessions[id].client].result = OkResult(id)

\* A session was disconnected, its successor's id was then still unknown to
\* disconnect, and the successor is registered now under another id
C23_Witness ==
    \E c, d \in DOMAIN clients :
        /\ Removed(c)
        /\ clients[d].result.success
        /\ clients[d].result.sessionId \in DOMAIN sessions
        /\ Len(discLog) = 2
        /\ discLog[1] = [id |-> clients[c].result.sessionId, had |-> TRUE, ret |-> TRUE]
        /\ discLog[2] = [id |-> clients[d].result.sessionId, had |-> FALSE, ret |-> FALSE]

\* What a reaper tick does to the session id that is registered before it
TickEffect(id) ==
    LET c == sessions[id].client
    IN  IF now - sessions[id].lastActivity > sessionTimeout
        THEN /\ id \notin DOMAIN sessions'
             /\ clients'[c].endCalls = clients[c].endCalls + 1
        ELSE /\ id \in DOMAIN sessions'
             /\ sessions'[id] = sessions[id]
             /\ clients'[c] = clients[c]

\* C24: a reaper tick removes and closes exactly the sessions with
\* now - lastActivity > sessionTimeout; every other session stays registered
\* with its lastActivity and its connection as they were.
C24_TickRemovesOnlyExpired ==
    [][ ReaperTick =>
          /\ DOMAIN sessions' \subseteq DOMAIN sessions
          /\ \A id \in DOMAIN sessions : TickEffect(id)
      ]_vars

\* A tick removed a session while another, idle for exactly the timeout, stayed
C24_Witness ==
    /\ reaped # {}
    /\ \E id \in DOMAIN sessions :
          /\ now - sessions[id].lastActivity = sessionTimeout
          /\ clients[sessions[id].client].endCalls = 0

\* An operation was invoked in this step on a session that is registered: its
\* lastActivity is the time of the step
Touches(calls, calls2) ==
    (Len(calls2) = Len(calls) + 1 /\ Last(calls2).sid \in DOMAIN sessions) =>
        sessions'[Last(calls2).sid].lastActivity = now

\* C25: a session is registered with lastActivity at the time of registration,
\* every invocation of one of the five operations on a registered session sets
\* its lastActivity to the time of the invocation, whatever becomes of the
\* operation, and lastActivity never decreases.
C25_ActivityTouched ==
    [][ /\ \A id \in DOMAIN sessions' \ DOMAIN sessions : sessions'[id].lastActivity = now
        /\ Touches(execs, execs')
        /\ Touches(uploads, uploads')
        /\ Touches(downloads, downloads')
        /\ Touches(lineRanges, lineRanges')
        /\ Touches(timeRanges, timeRanges')
        /\ \A id \in DOMAIN sessions \cap DOMAIN sessions' :
              sessions'[id].lastActivity >= sessions[id].lastActivity
      ]_vars

\* A session touched at the latest time, after a line-range and a time-range
\* extraction were invoked on it and a command on it was refused
C25_Witness ==
    \E id \in DOMAIN sessions :
        /\ now = MaxTime
        /\ sessions[id].lastActivity = now
        /\ \E r \in DOMAIN lineRanges : lineRanges[r].sid = id /\ lineRanges[r].exec # 0
        /\ \E t \in DOMAIN timeRanges : timeRanges[t].sid = id /\ timeRanges[t].upload # 0
        /\ \E k \in DOMAIN execs : execs[k].sid = id /\ execs[k].phase = "failed"

\* C26: operations on one session are not serialized: a command invoked on a
\* registered session asks for its own channel at once, whatever commands on
\* the session are still pending, and the calls made earlier are left as they
\* are, neither waiting for the other.
C26_NotSerialized ==
    [][ (Len(execs') = Len(execs) + 1 /\ Last(execs').sid \in DOMAIN sessions) =>
            /\ Last(execs').phase = "requested"
            /\ Pending(Last(execs'))
            /\ \A k \in DOMAIN execs : execs'[k] = execs[k]
      ]_vars

\* Two commands on one session had their channels open together, and the one
\* called second resolved while the first is still pending
C26_Witness ==
    \E j, k \in DOMAIN execs :
        /\ j < k
        /\ execs[j].sid = execs[k].sid
        /\ execs[j].phase = "open"
        /\ Pending(execs[j])
        /\ execs[k].promise = "resolved"

\* The line carries a timestamp that parses to an instant of [lo, hi]
InWindowLine(line, lo, hi) ==
    /\ InstantOf(line) # Undefined
    /\ InstantOf(line)[1] >= lo
    /\ InstantOf(line)[1] <= hi

\* The line carries a timestamp that parses to an instant after hi
LateLine(line, hi) == InstantOf(line) # Undefined /\ InstantOf(line)[1] > hi

\* The place of the first late line that comes after a line of the window, or
\* one past the end of the file when there is none
StopIndex(lines, lo, hi) ==
    LET Stops(i) == LateLine(lines[i], hi) /\ \E j \in 1..(i - 1) : InWindowLine(lines[j], lo, hi)
    IN  IF \E i \in DOMAIN lines : Stops(i)
        THEN CHOOSE i \in DOMAIN lines : Stops(i) /\ \A j \in 1..(i - 1) : ~Stops(j)
        ELSE Len(lines) + 1

\* The window of a call, in seconds
WindowStart(c) == DateSeconds(c.targetTime)[1] - c.minutesRange * 60
WindowEnd(c) == DateSeconds(c.targetTime)[1] + c.minutesRange * 60

Unstamped(line) == Matches(line, TimePattern) = <<>>

\* The current run is inside the window at line i: the nearest line before it
\* with a timestamp that parses lies in the window
RunInWindow(lines, i, lo, hi) ==
    \E j \in 1..(i - 1) :
        /\ InWindowLine(lines[j], lo, hi)
        /\ \A k \in (j + 1)..(i - 1) : InstantOf(lines[k]) = Undefined

\* The places of the lines a scan appends: lines of the window, and lines
\* without a timestamp while the run is inside the window
AppendedPlaces(lines, lo, hi) ==
    {i \in DOMAIN lines :
        \/ InWindowLine(lines[i], lo, hi)
        \/ Unstamped(lines[i]) /\ RunInWindow(lines, i, lo, hi)}

\* C28: on every file, out-of-order timestamps included, the scan appends a
\* line without a timestamp exactly when the nearest preceding line with a
\* parseable timestamp lies in the window; a line whose timestamp does not
\* parse is skipped, is not counted and leaves the run as it is.
C28_RunInsideWindow ==
    \A t \in DOMAIN timeRanges :
        LET c == timeRanges[t]
            lines == Stripped(FileLines(remote[LogPath]))
            lo == WindowStart(c)
            hi == WindowEnd(c)
            cut == SubSeq(lines, 1, StopIndex(lines, lo, hi) - 1)
            places == AppendedPlaces(cut, lo, hi)
            expected == SelectSeq([i \in DOMAIN cut |-> IF i \in places THEN <<cut[i]>> ELSE <<>>],
                                  LAMBDA x : x # <<>>)
        IN  c.promise = "resolved" =>
                /\ c.result.success
                /\ Stripped(FileLines(c.result.content.output))
                      = [i \in DOMAIN expected |-> expected[i][1]]
                /\ c.result.lineCount = Cardinality(places)

RECURSIVE Segments(_)
\* The segments of a text between its newlines, in order: one more than it
\* has newlines, the last one empty when the text ends with a newline
Segments(str) ==
    IF \A i \in DOMAIN str : str[i] # Newline THEN <<str>>
    ELSE <<SubSeq(str, 1, LineEnd(str) - 1)>>
             \o Segments(SubSeq(str, LineEnd(str) + 1, Len(str)))

OpenOn(calls, id) ==
    {k \in DOMAIN calls :
        /\ calls[k].sid = id
        /\ calls[k].phase = "open"
        /\ ~Delivered(calls[k], "close")}

\* C30: the channel set of a registered session holds every command channel
\* and every transfer channel that is open on its connection, so that
\* disconnect and the reaper close each of them.
C30_ChannelsTracked ==
    \A id \in DOMAIN sessions :
        /\ \A k \in OpenOn(execs, id) : <<"exec", k>> \in sessions[id].channels
        /\ \A u \in OpenOn(uploads, id) : <<"sftp", u>> \in sessions[id].channels

RECURSIVE Pick(_, _, _)
\* The lines at the given places, in order, from place i on
Pick(lines, places, i) ==
    IF i > Len(lines) THEN <<>>
    ELSE (IF i \in places THEN <<lines[i]>> ELSE <<>>) \o Pick(lines, places, i + 1)

\* The lines the loop of the script appended: those at which line_count grew
AppendedLines(lines, pattern, lo, hi) ==
    LET Count(i) == Scan(SubSeq(lines, 1, i), pattern, lo, hi, ScanStart).line_count
    IN  Pick(lines, {i \in DOMAIN lines : Count(i) > Count(i - 1)}, 1)

\* The lines a time-range call made its script append, from the log file as it is
AppendedBy(c) ==
    LET target == DateSeconds(c.targetTime)
        lines == IF LogPath \in DOMAIN remote
                 THEN ReadLines(FileLines(remote[LogPath])) ELSE <<>>
    IN  AppendedLines(lines, c.timePattern, target[1] - c.minutesRange * 60,
                      target[1] + c.minutesRange * 60)

\* The script of call c has run and exited with status 0
ScriptSucceeded(c) ==
    /\ c.promise = "resolved"
    /\ c.run # 0
    /\ execs[c.run].promise = "resolved"
    /\ execs[c.run].result.exitCode = 0

\* C31: whatever the lines hold (double quotes, backslashes, the two
\* characters backslash and n), when the script exits with status 0 its payload
\* is parsed and the returned content is exactly the appended lines, each
\* followed by one newline, with lineCount their number.
C31_PayloadRoundTrip ==
    \A t \in DOMAIN timeRanges :
        ScriptSucceeded(timeRanges[t]) =>
            /\ timeRanges[t].result.success
            /\ timeRanges[t].result.content.output = Terminated(AppendedBy(timeRanges[t]))
            /\ timeRanges[t].result.lineCount = Len(AppendedBy(timeRanges[t]))

\* C32: the line-range command and the script take filePath, targetTime and
\* timePattern as literal values: every command the remote host starts reads
\* the file the caller named and does to the files of the host what it does
\* under a shell that takes each parameter as it is written, so that no part
\* of a parameter is run as a command.
C32_ParametersLiteral ==
    [][\A k \in DOMAIN execs :
          (k \notin DOMAIN procs /\ k \in DOMAIN procs') =>
              LET literal == ShellWith(execs[k].command, remote, FALSE)
              IN  /\ remote' = literal.files
                  /\ procs'[k] = [stdout |-> literal.stdout, stderr |-> literal.stderr,
                                  code |-> literal.code]
      ]_vars

\* C33: when the remote file cannot be read, extractLogsByLineRange returns
\* success = false with the remote diagnostic text, with endLine given and
\* with endLine omitted; it never returns success = true for such a file.
C33_UnreadableFails ==
    \A r \in DOMAIN lineRanges :
        (/\ lineRanges[r].promise = "resolved"
         /\ lineRanges[r].exec # 0
         /\ execs[lineRanges[r].exec].promise = "resolved"
         /\ lineRanges[r].filePath \notin DOMAIN remote) =>
            /\ ~lineRanges[r].result.success
            /\ lineRanges[r].result.content = Str(FailedToExtract, CannotOpen)

\* The steps of a time-range call, in the order of the code
TimeRangeSteps == <<"upload", "chmod", "run", "rm">>

\* The call a step of a time-range call made
StepCall(c, step) == IF step = "upload" THEN uploads[c[step]] ELSE execs[c[step]]

\* The step has been made and its channel or stream has closed with success
StepClosed(c, step) ==
    /\ c[step] # 0
    /\ StepCall(c, step).promise = "resolved"
    /\ Delivered(StepCall(c, step), "close")

\* The steps of the call that are in flight
StepsInFlight(c) ==
    {i \in DOMAIN TimeRangeSteps :
        c[TimeRangeSteps[i]] # 0 /\ Pending(StepCall(c, TimeRangeSteps[i]))}

\* C34: the steps of extractLogsByTimeRange are strictly ordered: a step is
\* issued only after the step before it has closed with success, the parsed
\* result is returned only after the rm command has closed, and no two steps
\* of one call are in flight at the same time.
C34_StepsOrdered ==
    \A t \in DOMAIN timeRanges :
        LET c == timeRanges[t]
        IN  /\ \A i \in 2..Len(TimeRangeSteps) :
                  c[TimeRangeSteps[i]] # 0 => StepClosed(c, TimeRangeSteps[i - 1])
            /\ (c.promise = "resolved" /\ c.result.success) => StepClosed(c, "rm")
            /\ Cardinality(StepsInFlight(c)) <= 1
            /\ ~Pending(c) => StepsInFlight(c) = {}

\* A call went through its four steps and returned the parsed result
C34_Witness ==
    \E t \in DOMAIN timeRanges :
        /\ timeRanges[t].promise = "resolved"
        /\ timeRanges[t].result.success
        /\ \A i \in DOMAIN TimeRangeSteps : StepClosed(timeRanges[t], TimeRangeSteps[i])

\* C35: after cleanup() has returned the reaper timer is stopped, the registry
\* is empty and stays empty, and every connection that became ready is closed:
\* a connect that was in flight when cleanup() ran registers no session
\* afterwards.
C35_CleanupFinal ==
    ~cleanupInterval =>
        /\ sessions = <<>>
        /\ \A c \in DOMAIN clients : ReadySeen(clients[c]) => Closed(c)

\* C36: two extractLogsByTimeRange calls that overlap in time on the same
\* remote host never share a script path, so that each call runs the script it
\* uploaded and no call removes the script of another.
C36_OwnScriptPath ==
    \A t, u \in DOMAIN timeRanges :
        (/\ t # u
         /\ Started(t) /\ Pending(timeRanges[t])
         /\ Started(u) /\ Pending(timeRanges[u])) =>
            timeRanges[t].scriptPath # timeRanges[u].scriptPath

\* The extraction begun in this step is rejected with 'Session not found' and
\* has made no call: no command, no upload, nothing changed on either side
RejectsUntouched(calls, calls2) ==
    /\ calls2 = Append(calls, Last(calls2))
    /\ Last(calls2).promise = "rejected"
    /\ Last(calls2).error = SessionNotFound
    /\ UNCHANGED <<sessions, clients, execs, uploads, downloads, remote, procs>>

\* The result of the catch block for a session that is missing
MissingResult == CaughtResult(Str(SessionNotFound, <<>>))

\* C37: extractLogsByLineRange and extractLogsByTimeRange on an id that is not
\* in the registry when they are called reject with 'Session not found' and
\* make no command and no upload; a failed result for a missing session is
\* returned only by a call that found its session when it began.
C37_MissingSessionRejects ==
    [][ /\ MissingCall(lineRanges, lineRanges') =>
               RejectsUntouched(lineRanges, lineRanges') /\ UNCHANGED timeRanges
        /\ MissingCall(timeRanges, timeRanges') =>
               RejectsUntouched(timeRanges, timeRanges') /\ UNCHANGED lineRanges
        /\ \A r \in DOMAIN lineRanges' :
               lineRanges'[r].result = MissingResult => lineRanges'[r].exec # 0
        /\ \A t \in DOMAIN timeRanges' :
               timeRanges'[t].result = MissingResult =>
                   /\ timeRanges'[t].upload # 0
                   /\ timeRanges'[t].sid \notin DOMAIN sessions'
      ]_vars

\* A line range and a time range were rejected on ids that were not
\* registered, and a time range that began on a registered session returned
\* the failure after a disconnect
C37_Witness ==
    /\ \E r \in DOMAIN lineRanges :
          lineRanges[r].promise = "rejected" /\ lineRanges[r].error = SessionNotFound
    /\ \E t \in DOMAIN timeRanges :
          timeRanges[t].promise = "rejected" /\ timeRanges[t].error = SessionNotFound
    /\ \E t \in DOMAIN timeRanges :
          /\ timeRanges[t].promise = "resolved"
          /\ timeRanges[t].upload # 0
          /\ timeRanges[t].result = MissingResult

\* Call i of a kind has been made and has not settled
InFlight(calls, i) == i \in DOMAIN calls /\ Pending(calls[i])

\* Call i of a kind has settled
Settled(calls, i) == i \in DOMAIN calls /\ ~Pending(calls[i])

\* C38: when the transport delivers ready or error for every connection
\* attempt, and close or error (end or error for a read stream) for every
\* channel or stream it opens, every call of connect, executeCommand,
\* uploadFile, downloadFile, extractLogsByLineRange and extractLogsByTimeRange
\* eventually settles, also when its session is disconnected or reaped while
\* the call is in flight.
C38_CallsSettle ==
    \A i \in CallIndices :
        /\ InFlight(clients, i) ~> Settled(clients, i)
        /\ InFlight(execs, i) ~> Settled(execs, i)
        /\ InFlight(uploads, i) ~> Settled(uploads, i)
        /\ InFlight(downloads, i) ~> Settled(downloads, i)
        /\ InFlight(lineRanges, i) ~> Settled(lineRanges, i)
        /\ InFlight(timeRanges, i) ~> Settled(timeRanges, i)

\* A time range whose session was reaped after its upload returned the failure
\* for the missing session: the call was in flight when the session went, and
\* it settled
C38_Witness ==
    \E t \in DOMAIN timeRanges :
        /\ timeRanges[t].promise = "resolved"
        /\ timeRanges[t].upload # 0
        /\ timeRanges[t].result = MissingResult
        /\ timeRanges[t].sid \in reaped
        /\ \A k \in DOMAIN execs : ~Pending(execs[k])
        /\ \A u \in DOMAIN uploads : ~Pending(uploads[u])

\* An operation was invoked on session id in this step
Invoked(id) ==
    \/ Len(execs') = Len(execs) + 1 /\ Last(execs').sid = id
    \/ Len(uploads') = Len(uploads) + 1 /\ Last(uploads').sid = id
    \/ Len(downloads') = Len(downloads) + 1 /\ Last(downloads').sid = id

\* Command k is the operation in flight on session id, which is registered
Running(id, k) ==
    /\ id \in DOMAIN sessions
    /\ k \in DOMAIN execs
    /\ execs[k].sid = id
    /\ Pending(execs[k])

\* C39: only the invocation of an operation updates lastActivity: output, the
\* exit event and the completion of an operation in flight leave it as it
\* was, so a reaper tick that fires when the single operation of a session
\* has been running for longer than sessionTimeout (the clock starts at its
\* invocation) disconnects the session and leaves the operation in flight.
C39_OnlyInvocationTouches ==
    [][ /\ \A id \in DOMAIN sessions \cap DOMAIN sessions' :
              sessions'[id].lastActivity # sessions[id].lastActivity => Invoked(id)
        /\ \A id \in DOMAIN sessions, k \in DOMAIN execs :
              (ReaperTick /\ Running(id, k) /\ now > sessionTimeout) =>
                  /\ id \notin DOMAIN sessions'
                  /\ clients'[sessions[id].client].endCalls =
                         clients[sessions[id].client].endCalls + 1
                  /\ Pending(execs'[k])
      ]_vars

\* The session was reaped while its command, which had delivered output and
\* its exit status, was still in flight
C39_Witness ==
    \E k \in DOMAIN execs :
        /\ Pending(execs[k])
        /\ execs[k].phase = "open"
        /\ Delivered(execs[k], "data")
        /\ Delivered(execs[k], "exit")
        /\ execs[k].sid \in reaped
        /\ execs[k].sid \notin DOMAIN sessions
        /\ clients[execs[k].client].endCalls = 1

====
